---- MODULE Spec2Model ----
(***************************************************************************)
(* A model of the goalife simulation engine (dnesting/alife):              *)
(*   - grid2d: the cell array, its Locators and the Updates it records     *)
(*     (grid.go, locator.go, notifier.go), with the Food occupant;         *)
(*   - energy: the Store with its compare-and-swap loop and Transfer;      *)
(*   - the notifier's delivery of Updates to subscriber channels while     *)
(*     several tasks mutate the grid;                                      *)
(*   - org and cpu1: the Organism in the grid and the loop of Cpu.Run      *)
(*     that drives it until it dies; the Cpu's fetch of an instruction;    *)
(*   - maintain: the task that keeps a minimum of counted occupants;       *)
(*   - census: MemCensus and the DirCensus that records populations in     *)
(*     files;                                                              *)
(*   - chanbuf: the Limit, Ring and Trigger queues between a producer and  *)
(*     a consumer;                                                         *)
(*   - autosave: Save, statement by statement, as Loop calls it;           *)
(* Each part has its own specification over the shared variables.          *)
(***************************************************************************)
EXTENDS Integers, Sequences, FiniteSets, TLC

VARIABLES
    width, height,  \* grid.width, grid.height
    data,           \* grid.data: offset -> locator id, 0 is a nil *locator
    locs,           \* every locator allocated so far: id -> [x, y, v, invalid]
    foodLoc,        \* Food.loc: food -> locator id, 0 is nil
    foodV,          \* Food.Store.V
    last,           \* the most recent call on the grid and what it returned
    V,              \* Store.V of every energy.Store
    task,           \* the tasks calling Store.AddEnergy and energy.Transfer
    ret,            \* what the last call of AddEnergy or Transfer by a lone task returned
    gmu,            \* the task holding the grid's lock (grid.RWMutex), or None
    nmu,            \* the task holding the notifier's lock (notifier.mu), or None
    subs,           \* notifier.subs
    mut,            \* the tasks mutating the grid: where each is in its call
    nMut,           \* how many mutations have taken effect on the cell array
    nSent,          \* how many Updates have been handed to notifier.add
    recv,           \* channel -> the Updates received from it so far
    subCount,       \* channel -> how often it was passed to Subscribe
    subAt,          \* channel -> nSent when it was last passed to Subscribe
    org,            \* every org.Organism: its Store.V, Dir, loc and where its Run is
    olast,          \* the most recent pass of the loop of Cpu.Run and what it did
    cpu,            \* a cpu1.Cpu: Ip, Code, R, and the energy V of the organism it drives
    clast,          \* the most recent call of Cpu.Step on cpu and what it did
    mt,             \* maintain.Maintain: where it is, its count, and what its seeding task has left
    spawning,       \* how many tasks started by "go fn()" have not run fn yet
    mch,            \* the batches sent on Maintain's channel and not received yet
    pop,            \* how many counted occupants the grid holds
    nPub,           \* how many batches the other tasks have published
    mlast,          \* the most recent batch Maintain received and what it did with it
    cen,            \* a MemCensus: seen, count, countAll, distinct, distinctAll
    files,          \* the files of DirCensus.Dir: name -> the Population encoded in it
    numRecorded,    \* DirCensus.numRecorded
    thr,            \* DirCensus.Threshold
    hist,           \* what was called on the census so far: Adds and Removes per key, Creates per file
    cenlast,        \* the most recent call on the census and what it returned
    que,            \* a chanbuf Queue: the fields of a limitQueue, ringQueue or triggerQueue
    qhist,          \* what was Put into the queue and what Get has handed out so far
    qlast,          \* the most recent call on the queue and what it returned
    disk,           \* the file at the path given to Save and Save's temporary file
    save,           \* where Loop and its call of Save are, and what Save returned
    gen,            \* how often the grid has changed; a snapshot is known by the gen it was taken at
    ftask,          \* where each task's call of Food.AddEnergy is
    rdr,            \* what each subscriber's task does: it receives from its channel or calls Grid.Get
    closed,         \* the subscriber channels that notifier.Done has closed
    ndone,          \* whether the exit was signalled and notifier.Done has run
    pool,           \* the Foods that were handed to foodPool.Put and not taken out again
    otask           \* where the task of each organism is in Eat or in Die, and what it holds

gridVars == <<width, height, data, locs, foodLoc, foodV, last>>
energyVars == <<V, task, ret>>
notifyVars == <<gmu, nmu, subs, mut, nMut, nSent, recv, subCount, subAt>>
orgVars == <<org, olast>>
cpuVars == <<cpu, clast>>
\* the variables of the packages beside the grid, the organisms and the notifier
maintVars == <<mt, spawning, mch, pop, nPub, mlast>>
censusVars == <<cen, files, numRecorded, thr, hist, cenlast>>
queueVars == <<que, qhist, qlast>>
saveVars == <<disk, save, gen>>
\* the calls in flight of the tasks that share Foods, organisms and the notifier
subscriberVars == <<rdr, closed, ndone>>
taskVars == <<ftask, pool, otask, subscriberVars>>
moreVars == <<censusVars, queueVars, saveVars, taskVars>>
pkgVars == <<cpuVars, maintVars, moreVars>>

vars == <<width, height, data, locs, foodLoc, foodV, last, V, task, ret,
          gmu, nmu, subs, mut, nMut, nSent, recv, subCount, subAt, org, olast,
          cpu, clast, mt, spawning, mch, pop, nPub, mlast,
          cen, files, numRecorded, thr, hist, cenlast, que, qhist, qlast,
          disk, save, gen, ftask, rdr, closed, ndone, pool, otask>>

----------------------------------------------------------------------------
(* Bounds of the model *)

MaxDim == 2         \* extents range over 1..MaxDim
MaxLocators == 2    \* newLocator is called at most this often
MaxDelta == 1       \* relative coordinates range over -MaxDelta..MaxDelta
StoreBits == 4      \* Store.V is an int32; modelled as a StoreBits-wide two's complement integer
MaxAmt == 1         \* amounts passed to AddEnergy and Transfer range over -MaxAmt..MaxAmt
FoodEnergy == 2     \* the energy a Food is created with
MaxRetries == 1     \* failed compare-and-swaps per call of AddEnergy
MaxMutations == 3   \* mutations of the grid by the concurrent tasks
MaxSubs == 2        \* length of notifier.subs
MaxSubscribes == 2  \* calls of Subscribe per channel
MaxOrgs == 2        \* organisms ever created, started ones and children together
InitialEnergy == 4  \* what startOrg gives a new organism
BodyEnergy == 1     \* org.BodyEnergy
CostUnit == 1       \* the costs in the Ops table: Eat one unit, Forward two
CodeLen == 1        \* len(c.Code)
MaxEat == 2         \* the amounts passed to Eat are 0 and MaxEat
FracDen == 2        \* energyFrac ranges over k / FracDen for k in 0..FracDen
SenseDistance == 2  \* org.SenseDistance
MaxCode == 2        \* len(c.Code) of the stepped Cpu ranges over 1..MaxCode
Keep == 2           \* the keep passed to Maintain
MaxPop == 3         \* counted occupants the grid has room for
MaxBatch == 2       \* Updates in a batch published by the other tasks
MaxPublish == 2     \* batches published by the other tasks
MaxQueued == 2      \* batches waiting on Maintain's channel
MaxThreshold == 2   \* a DirCensus.Threshold asks for a Count above 1..MaxThreshold
MaxCalls == 6       \* calls of Add and Remove on a census
MaxSize == 2        \* the size passed to Limit and Ring ranges up to MaxSize
MaxPuts == 4        \* calls of Put on a queue
Chunks == 2         \* the writes by which the encoder puts a snapshot into the file
MaxSaves == 3       \* calls of Save by Loop
MaxGen == 2
MaxJumpCode == 4         \* changes of the grid while Loop runs

----------------------------------------------------------------------------
(* Values *)

Nil == "nil"                         \* a nil interface{} value
Null == "Null"                       \* energy.Null
Foods == {"f1"}                      \* *food.Food occupants
Occupants == {"a"} \cup Foods        \* values callers place in the grid
OrgNames == <<"o1", "o2", "o3", "o4">>
Orgs == {OrgNames[i] : i \in 1..MaxOrgs}        \* *org.Organism occupants
\* the *food.Food that Die makes of an organism
FoodOf(o) == CASE o = "o1" -> "d1" [] o = "o2" -> "d2" [] o = "o3" -> "d3" [] OTHER -> "d4"
AllFoods == Foods \cup {FoodOf(o) : o \in Orgs}
SenseFalloffExp == 2                 \* org.SenseFalloffExp
EatAmounts == 0..MaxEat                \* what opEat makes of the register
PutWhens == {"PutAlways", "PutWhenNil"}
Dirs == 0..7                         \* Organism.Dir
DrawnDirs == {0, 6}                  \* the directions Random() draws here: (1, 0) and (0, 1)
Deltas == (-MaxDelta)..MaxDelta
FoodAmounts == (-FoodEnergy)..(-1)    \* what is taken from a Food at a time
GetCoords == (-1)..MaxDim             \* absolute coordinates passed to Grid.Get

MaxInt32 == 2^(StoreBits - 1) - 1
MinInt32 == -(2^(StoreBits - 1))

\* int32(n): conversion of an int to the width of Store.V
int32(n) == ((n - MinInt32) % 2^StoreBits) + MinInt32

Point(x, y, v) == [X |-> x, Y |-> y, V |-> v]
NoPoint == [X |-> -1, Y |-> -1, V |-> Nil]      \* a nil *Point
Update(old, new) == [Old |-> old, New |-> new]

IsAdd(u) == u.Old = NoPoint /\ u.New # NoPoint
IsRemove(u) == u.Old # NoPoint /\ u.New = NoPoint
IsMove(u) == u.Old # NoPoint /\ u.New # NoPoint /\ (u.Old.X # u.New.X \/ u.Old.Y # u.New.Y)
IsReplace(u) == u.Old # NoPoint /\ u.New # NoPoint /\ u.Old.V # u.New.V

\* notifier.RecordAdd etc.: each call hands one batch of one Update to notifier.add
RecordAdd(x, y, value) == <<Update(NoPoint, Point(x, y, value))>>
RecordRemove(x, y, value) == <<Update(Point(x, y, value), NoPoint)>>
RecordMove(x1, y1, x2, y2, value) == <<Update(Point(x1, y1, value), Point(x2, y2, value))>>
RecordReplace(x, y, orig, repl) == <<Update(Point(x, y, orig), Point(x, y, repl))>>

----------------------------------------------------------------------------
(* The grid as a value, so that a handler's steps compose *)

G == [w |-> width, h |-> height, data |-> data, locs |-> locs, floc |-> foodLoc]

\* grid.offset: the bounds check and the offset it returns
offset(g, x, y) ==
    [panic |-> (x < 0 \/ x > g.w \/ y < 0 \/ y > g.h), off |-> y * g.w + x]

\* grid.getLocked: g.data[g.offset(x, y)]; an offset past the slice aborts too
getLocked(g, x, y) ==
    LET o == offset(g, x, y)
    IN  IF o.panic \/ o.off \notin DOMAIN g.data
        THEN [panic |-> TRUE, loc |-> 0]
        ELSE [panic |-> FALSE, loc |-> g.data[o.off]]

\* locator.Value: nil for a nil locator
Value(g, l) == IF l = 0 THEN Nil ELSE g.locs[l].v

shouldPut(fn, a, b) ==
    CASE fn = "PutAlways" -> TRUE
      [] fn = "PutWhenNil" -> a = Nil
      [] fn = "PutWhenFood" -> a = Nil \/ a \in AllFoods
      [] OTHER -> TRUE

newLocator(x, y, v) == [x |-> x, y |-> y, v |-> v, invalid |-> FALSE]

invalidate(g, l) == IF l = 0 THEN g ELSE [g EXCEPT !.locs[l].invalid = TRUE]

\* grid.putLocked
putLocked(g, x, y, n, fn) ==
    LET got == getLocked(g, x, y)
        origLoc == got.loc
        origValue == Value(g, origLoc)
        loc == IF n # Nil THEN Len(g.locs) + 1 ELSE 0
        g1 == IF n # Nil THEN [g EXCEPT !.locs = Append(@, newLocator(x, y, n))] ELSE g
        g2 == invalidate(g1, origLoc)
        g3 == [g2 EXCEPT !.data[offset(g, x, y).off] = loc]
        g4 == IF n \in AllFoods THEN [g3 EXCEPT !.floc[n] = loc] ELSE g3
    IN  IF got.panic THEN [g |-> g, panic |-> TRUE, orig |-> Nil, loc |-> 0]
        ELSE IF ~shouldPut(fn, origValue, n)
        THEN [g |-> g, panic |-> FALSE, orig |-> origValue, loc |-> 0]
        ELSE [g |-> g4, panic |-> FALSE, orig |-> origValue, loc |-> loc]

\* grid.putLockedWithNotify
putLockedWithNotify(g, x, y, n, fn) ==
    LET r == putLocked(g, x, y, n, fn)
        u1 == IF r.orig # Nil /\ n = Nil THEN <<RecordRemove(x, y, r.orig)>> ELSE <<>>
        u2 == IF r.loc # 0 THEN <<RecordAdd(x, y, n)>> ELSE <<>>
    IN  [g |-> r.g, panic |-> r.panic, orig |-> r.orig, loc |-> r.loc,
         ups |-> IF r.panic THEN <<>> ELSE u1 \o u2]

----------------------------------------------------------------------------
(* State changes shared by the actions *)

SetG(g) ==
    /\ width' = g.w
    /\ height' = g.h
    /\ data' = g.data
    /\ locs' = g.locs
    /\ foodLoc' = g.floc

\* what a call leaves to observe: its name, how it ended ("ok", "refused" or
\* "panic"), the value and the Locator it returned, the batches it sent, and the
\* arguments of the calls it made of the removedFn given to Resize
Call(op, res, orig, newloc, ups) ==
    [op |-> op, res |-> res, orig |-> orig, newloc |-> newloc, ups |-> ups, cb |-> <<>>]

\* a panic aborts the process
Running == last.res # "panic"

CanAllocate == Len(locs) < MaxLocators

----------------------------------------------------------------------------
(* Grid operations *)

\* grid.Get
GridGet(x, y) ==
    LET got == getLocked(G, x, y)
    IN  /\ Running
        /\ last' = Call("GridGet", IF got.panic THEN "panic" ELSE "ok", Nil, got.loc, <<>>)
        /\ UNCHANGED <<width, height, data, locs, foodLoc, foodV, energyVars, notifyVars, orgVars, pkgVars>>

\* grid.Put
GridPut(x, y, n, fn) ==
    LET r == putLockedWithNotify(G, x, y, n, fn)
    IN  /\ Running
        /\ n # Nil => CanAllocate
        /\ SetG(r.g)
        /\ last' = Call("GridPut", IF r.panic THEN "panic" ELSE "ok", r.orig, r.loc, r.ups)
        /\ UNCHANGED <<foodV, energyVars, notifyVars, orgVars, pkgVars>>

\* grid.Remove
GridRemove(x, y) ==
    LET r == putLockedWithNotify(G, x, y, Nil, "PutAlways")
    IN  /\ Running
        /\ SetG(r.g)
        /\ last' = Call("GridRemove", IF r.panic THEN "panic" ELSE "ok", r.orig, 0, r.ups)
        /\ UNCHANGED <<foodV, energyVars, notifyVars, orgVars, pkgVars>>

\* grid.PutRandomly with an occupant n: the cells of the permutation are tried in
\* turn, a refused cell is left as it was, and the first cell that accepts n gets it
GridPutRandomly(n, fn) ==
    /\ Running
    /\ CanAllocate
    /\ \/ \E x \in 0..(width - 1), y \in 0..(height - 1) :
             LET r == putLockedWithNotify(G, x, y, n, fn)
             IN  /\ r.loc # 0
                 /\ SetG(r.g)
                 /\ last' = Call("GridPutRandomly", "ok", r.orig, r.loc, r.ups)
       \/ /\ \A x \in 0..(width - 1), y \in 0..(height - 1) :
                putLockedWithNotify(G, x, y, n, fn).loc = 0
          /\ last' = Call("GridPutRandomly", "ok", Nil, 0, <<>>)
          /\ UNCHANGED <<width, height, data, locs, foodLoc>>
    /\ UNCHANGED <<foodV, energyVars, notifyVars, orgVars, pkgVars>>

\* the loop of grid.Resize over the old cells, from offset i on; cbs are the calls
\* of removedFn
RECURSIVE resizeFrom(_, _, _, _, _)
resizeFrom(g, old, i, ups, cbs) ==
    IF i \notin DOMAIN old THEN [g |-> g, ups |-> ups, cbs |-> cbs]
    ELSE LET l == old[i]
         IN  IF l = 0 THEN resizeFrom(g, old, i + 1, ups, cbs)
             ELSE IF g.locs[l].x >= g.w \/ g.locs[l].y >= g.h
             THEN resizeFrom(g, old, i + 1,
                             Append(ups, RecordRemove(g.locs[l].x, g.locs[l].y, g.locs[l].v)),
                             Append(cbs, <<g.locs[l].x, g.locs[l].y, g.locs[l].v>>))
             ELSE resizeFrom([g EXCEPT !.data[offset(g, g.locs[l].x, g.locs[l].y).off] = l],
                             old, i + 1, ups, cbs)

\* grid.Resize that would drop occupants without a word
resize_Silent(g, w, h) ==
    [resizeFrom([g EXCEPT !.data = [o \in 0..(w * h - 1) |-> 0], !.w = w, !.h = h],
                g.data, 0, <<>>, <<>>) EXCEPT !.ups = <<>>]

\* grid.Resize with a removedFn
resize(g, w, h) ==
    resizeFrom([g EXCEPT !.data = [o \in 0..(w * h - 1) |-> 0], !.w = w, !.h = h],
               g.data, 0, <<>>, <<>>)

GridResize(w, h) ==
    LET r == resize(G, w, h)
    IN  /\ Running
        /\ SetG(r.g)
        /\ last' = [Call("GridResize", "ok", Nil, 0, r.ups) EXCEPT !.cb = r.cbs]
        /\ UNCHANGED <<foodV, energyVars, notifyVars, orgVars, pkgVars>>

----------------------------------------------------------------------------
(* Locator operations *)

\* locator.checkValid: TRUE when it panics
checkValid(g, l) == g.locs[l].invalid

\* locator.checkLocationInvariant: TRUE when it panics
checkLocationInvariant(g, l) ==
    LET found == getLocked(g, g.locs[l].x, g.locs[l].y)
    IN  found.panic \/ found.loc # l

\* Go's remainder, which has the sign of the dividend
GoRem(a, b) == IF a >= 0 THEN a % b ELSE -((-a) % b)

\* locator.delta without the correction of a negative remainder
delta_NoWrap(g, l, dx, dy) ==
    [x |-> GoRem(g.locs[l].x + dx, g.w), y |-> GoRem(g.locs[l].y + dy, g.h)]

\* locator.delta
delta(g, l, dx, dy) ==
    LET x == GoRem(g.locs[l].x + dx, g.w)
        y == GoRem(g.locs[l].y + dy, g.h)
    IN  [x |-> IF x < 0 THEN x + g.w ELSE x, y |-> IF y < 0 THEN y + g.h ELSE y]

\* locator.Get
LocGet(l, dx, dy) ==
    LET bad == checkValid(G, l) \/ checkLocationInvariant(G, l)
        d == delta(G, l, dx, dy)
        got == getLocked(G, d.x, d.y)
    IN  /\ Running
        /\ last' = IF bad THEN Call("LocGet", "panic", Nil, 0, <<>>)
                   ELSE Call("LocGet", IF got.panic THEN "panic" ELSE "ok", Nil, got.loc, <<>>)
        /\ UNCHANGED <<width, height, data, locs, foodLoc, foodV, energyVars, notifyVars, orgVars, pkgVars>>

\* locator.Put
LocPut(l, dx, dy, n, fn) ==
    LET bad == checkValid(G, l) \/ checkLocationInvariant(G, l)
        d == delta(G, l, dx, dy)
        r == putLocked(G, d.x, d.y, n, fn)
    IN  /\ Running
        /\ (~bad /\ n # Nil) => CanAllocate
        /\ IF bad \/ r.panic
           THEN /\ last' = Call("LocPut", "panic", Nil, 0, <<>>)
                /\ UNCHANGED <<width, height, data, locs, foodLoc>>
           ELSE /\ SetG(r.g)
                /\ last' = Call("LocPut", "ok", r.orig, r.loc, IF r.loc # 0 THEN <<RecordAdd(d.x, d.y, n)>> ELSE <<>>)
        /\ UNCHANGED <<foodV, energyVars, notifyVars, orgVars, pkgVars>>

\* grid.moveLocked
moveLocked(g, x1, y1, x2, y2, fn) ==
    LET src == getLocked(g, x1, y1).loc
        dst == getLocked(g, x2, y2).loc
        g1 == invalidate(g, dst)
        g2 == [g1 EXCEPT !.data[offset(g, x2, y2).off] = src]
        g3 == [g2 EXCEPT !.data[offset(g, x1, y1).off] = 0]
        g4 == [g3 EXCEPT !.locs[src].x = x2, !.locs[src].y = y2]
    IN  IF ~shouldPut(fn, Value(g, dst), Value(g, src))
        THEN [g |-> g, orig |-> Value(g, dst), ok |-> FALSE, ups |-> <<>>]
        ELSE [g |-> g4, orig |-> Value(g, dst), ok |-> TRUE,
              ups |-> <<RecordMove(x1, y1, x2, y2, g.locs[src].v)>>]

\* locator.Move
LocMove(l, dx, dy, fn) ==
    LET bad == checkValid(G, l) \/ checkLocationInvariant(G, l)
        d == delta(G, l, dx, dy)
        r == moveLocked(G, locs[l].x, locs[l].y, d.x, d.y, fn)
        after == checkValid(r.g, l) \/ checkLocationInvariant(r.g, l)
    IN  /\ Running
        /\ IF bad
           THEN /\ last' = Call("LocMove", "panic", Nil, 0, <<>>)
                /\ UNCHANGED <<width, height, data, locs, foodLoc>>
           ELSE /\ SetG(r.g)
                /\ last' = Call("LocMove", IF after THEN "panic" ELSE IF r.ok THEN "ok" ELSE "refused", r.orig, 0, r.ups)
        /\ UNCHANGED <<foodV, energyVars, notifyVars, orgVars, pkgVars>>

\* locator.replaceLocked
replaceLocked(g, l, n) ==
    LET old == g.locs[l].v
        r == putLocked(g, g.locs[l].x, g.locs[l].y, n, "PutAlways")
    IN  IF checkValid(g, l) \/ checkLocationInvariant(g, l)
        THEN [g |-> g, panic |-> TRUE, loc |-> 0, ups |-> <<>>]
        ELSE IF r.loc # 0
        THEN [g |-> r.g, panic |-> FALSE, loc |-> r.loc,
              ups |-> IF n = Nil THEN <<RecordRemove(g.locs[l].x, g.locs[l].y, old)>>
                      ELSE <<RecordReplace(g.locs[l].x, g.locs[l].y, old, n)>>]
        ELSE [g |-> r.g, panic |-> FALSE, loc |-> 0, ups |-> <<>>]

\* locator.Replace
LocReplace(l, n) ==
    LET r == replaceLocked(G, l, n)
    IN  /\ Running
        /\ (~r.panic /\ n # Nil) => CanAllocate
        /\ SetG(r.g)
        /\ last' = Call("LocReplace", IF r.panic THEN "panic" ELSE "ok", Nil, r.loc, r.ups)
        /\ UNCHANGED <<foodV, energyVars, notifyVars, orgVars, pkgVars>>

\* locator.RemoveWithPlaceholder without its early return for an invalid locator
removeWithPlaceholder_NoReturn(g, l, v) ==
    LET r == replaceLocked(g, l, Nil)
    IN  IF checkLocationInvariant(g, l) \/ r.panic THEN [g |-> g, panic |-> TRUE, ups |-> <<>>]
        ELSE [g |-> [r.g EXCEPT !.locs[l].v = v], panic |-> FALSE, ups |-> r.ups]

\* locator.RemoveWithPlaceholder
removeWithPlaceholder(g, l, v) ==
    LET r == replaceLocked(g, l, Nil)
    IN  IF g.locs[l].invalid THEN [g |-> g, panic |-> FALSE, ups |-> <<>>]
        ELSE IF checkLocationInvariant(g, l) \/ r.panic THEN [g |-> g, panic |-> TRUE, ups |-> <<>>]
        ELSE [g |-> [r.g EXCEPT !.locs[l].v = v], panic |-> FALSE, ups |-> r.ups]

LocRemoveWithPlaceholder(l, v) ==
    LET r == removeWithPlaceholder(G, l, v)
    IN  /\ Running
        /\ SetG(r.g)
        /\ last' = Call("LocRemoveWithPlaceholder", IF r.panic THEN "panic" ELSE "ok", Nil, 0, r.ups)
        /\ UNCHANGED <<foodV, energyVars, notifyVars, orgVars, pkgVars>>

\* locator.Remove
LocRemove(l) ==
    LET r == removeWithPlaceholder(G, l, locs[l].v)
    IN  /\ Running
        /\ SetG(r.g)
        /\ last' = Call("LocRemove", IF r.panic THEN "panic" ELSE "ok", Nil, 0, r.ups)
        /\ UNCHANGED <<foodV, energyVars, notifyVars, orgVars, pkgVars>>

----------------------------------------------------------------------------
(* energy.Store and food.Food *)

\* Store.AddEnergy without the clamp at zero
addEnergy_NoClamp(orig, amt) == [nv |-> int32(orig + int32(amt)), amt |-> amt]

\* one pass of the loop of Store.AddEnergy on the level it loaded: the level it
\* will try to store and the adjustment it will report
addEnergy(orig, amt) ==
    LET v == int32(orig + int32(amt))
    IN  IF v < 0 THEN [nv |-> 0, amt |-> amt - v] ELSE [nv |-> v, amt |-> amt]

\* Food.invalidate: loc.RemoveWithPlaceholder(energy.Null) when a locator is set
foodInvalidate(g, f) ==
    LET l == g.floc[f]
        r == removeWithPlaceholder(g, l, Null)
    IN  IF l = 0 THEN [g |-> g, panic |-> FALSE, ups |-> <<>>]
        ELSE IF r.panic THEN r
        ELSE [g |-> [r.g EXCEPT !.floc[f] = 0], panic |-> FALSE, ups |-> r.ups]

\* Food.AddEnergy, called by one task: Store.AddEnergy, then invalidate when the
\* level dropped to zero
FoodAddEnergy(f, amt) ==
    LET e == addEnergy(foodV[f], amt)
        r == IF e.amt # 0 /\ e.nv = 0 THEN foodInvalidate(G, f)
             ELSE [g |-> G, panic |-> FALSE, ups |-> <<>>]
    IN  /\ Running
        /\ foodV' = [foodV EXCEPT ![f] = e.nv]
        /\ SetG(r.g)
        /\ last' = Call("FoodAddEnergy", IF r.panic THEN "panic" ELSE "ok", Nil, 0, r.ups)
        /\ UNCHANGED <<energyVars, notifyVars, orgVars, pkgVars>>

----------------------------------------------------------------------------
(* energy.Store under concurrent callers *)

Stores == {"s1", "s2"}
Tasks == {"t1", "t2"}
Amounts == (-MaxAmt)..MaxAmt

IdleTask ==
    [pc |-> "idle", op |-> "none", store |-> "s1", k |-> 0, amt |-> 0, orig |-> 0, nv |-> 0,
     dest |-> "s1", src |-> "s1", phase |-> 0, req |-> 0, tries |-> 0]

\* a call of Store.AddEnergy(amt) on store s; k keeps the amount asked for
CallAddEnergy(t, s, amt) ==
    /\ task[t].pc = "idle"
    /\ task' = [task EXCEPT ![t] = [IdleTask EXCEPT !.pc = "load", !.op = "AddEnergy",
                                                    !.store = s, !.k = amt, !.amt = amt]]
    /\ UNCHANGED <<V, ret, gridVars, notifyVars, orgVars, pkgVars>>

\* a call of energy.Transfer(dest, src, amt): a negative amt swaps the two stores;
\* then src.AddEnergy(-amt) is called
CallTransfer(t, dest, src, amt) ==
    LET d == IF amt < 0 THEN src ELSE dest
        s == IF amt < 0 THEN dest ELSE src
        a == IF amt < 0 THEN -amt ELSE amt
    IN  /\ task[t].pc = "idle"
        /\ task' = [task EXCEPT ![t] = [IdleTask EXCEPT !.pc = "load", !.op = "Transfer",
                                                        !.store = s, !.k = -a, !.amt = -a,
                                                        !.dest = d, !.src = s, !.phase = 1,
                                                        !.req = a]]
        /\ UNCHANGED <<V, ret, gridVars, notifyVars, orgVars, pkgVars>>

\* Store.AddEnergy: atomic.LoadInt32 and the computation of the new level
Load(t) ==
    LET r == addEnergy(V[task[t].store], task[t].amt)
    IN  /\ task[t].pc = "load"
        /\ task' = [task EXCEPT ![t].pc = "cas", ![t].orig = V[task[t].store],
                                ![t].nv = r.nv, ![t].amt = r.amt]
        /\ UNCHANGED <<V, ret, gridVars, notifyVars, orgVars, pkgVars>>

\* Store.AddEnergy: atomic.CompareAndSwapInt32. A failed swap goes round the loop;
\* a successful one stores nv and returns (amt, nv) to the caller. Transfer then
\* calls dest.AddEnergy(-actual) with the amt returned to it, and returns after it.
CompareAndSwap(t) ==
    LET c == task[t]
    IN  /\ c.pc = "cas"
        /\ IF V[c.store] # c.orig
           THEN /\ c.tries < MaxRetries
                /\ task' = [task EXCEPT ![t].pc = "load", ![t].tries = @ + 1,
                                        ![t].orig = 0, ![t].nv = 0]
                /\ UNCHANGED <<V, ret, gridVars, notifyVars, orgVars, pkgVars>>
           ELSE /\ V' = [V EXCEPT ![c.store] = c.nv]
                /\ task' = IF c.op = "Transfer" /\ c.phase = 1
                           THEN [task EXCEPT ![t].pc = "load", ![t].phase = 2,
                                             ![t].store = c.dest, ![t].k = -c.amt,
                                             ![t].amt = -c.amt, ![t].tries = 0]
                           ELSE [task EXCEPT ![t] = IdleTask]
        /\ UNCHANGED <<ret, gridVars, notifyVars, orgVars, pkgVars>>

\* Store.AddEnergy called by a task that no other task interferes with: the
\* compare-and-swap succeeds at the first pass
AddEnergy(s, amt) ==
    LET r == addEnergy(V[s], amt)
    IN  /\ \A t \in Tasks : task[t].pc = "idle"
        /\ V' = [V EXCEPT ![s] = r.nv]
        /\ ret' = <<"AddEnergy", r.amt, r.nv>>
        /\ UNCHANGED <<task, gridVars, notifyVars, orgVars, pkgVars>>

\* energy.Transfer called by a task that no other task interferes with
Transfer(dest, src, amt) ==
    LET d == IF amt < 0 THEN src ELSE dest
        s == IF amt < 0 THEN dest ELSE src
        a == IF amt < 0 THEN -amt ELSE amt
        r1 == addEnergy(V[s], -a)
        V1 == [V EXCEPT ![s] = r1.nv]
        r2 == addEnergy(V1[d], -r1.amt)
    IN  /\ \A t \in Tasks : task[t].pc = "idle"
        /\ V' = [V1 EXCEPT ![d] = r2.nv]
        /\ ret' = <<"Transfer", -r1.amt, r2.nv, r1.nv>>
        /\ UNCHANGED <<task, gridVars, notifyVars, orgVars, pkgVars>>

----------------------------------------------------------------------------
(* The notifier while several tasks mutate the grid *)

None == "none"
Mutators == {"m1", "m2"}
Chans == {"c1", "c2"}

IdleMut == [pc |-> "idle", u |-> 0, i |-> 0]

\* grid.Put that would not take the grid's lock
PutBegin_NoLock(m) ==
    /\ Running
    /\ mut[m].pc = "idle"
    /\ nMut < MaxMutations
    /\ nMut' = nMut + 1
    /\ mut' = [mut EXCEPT ![m] = [pc |-> "mutated", u |-> nMut + 1, i |-> 0]]
    /\ UNCHANGED <<gmu, nmu, subs, nSent, recv, subCount, subAt, gridVars, energyVars, orgVars, pkgVars>>

\* grid.Put up to the end of putLocked: g.Lock(), then the mutation takes effect
\* on the cell array; u numbers the Update it will record
PutBegin(m) ==
    /\ Running
    /\ mut[m].pc = "idle"
    /\ gmu = None
    /\ nMut < MaxMutations
    /\ gmu' = m
    /\ nMut' = nMut + 1
    /\ mut' = [mut EXCEPT ![m] = [pc |-> "mutated", u |-> nMut + 1, i |-> 0]]
    /\ UNCHANGED <<nmu, subs, nSent, recv, subCount, subAt, gridVars, energyVars, orgVars, pkgVars>>

\* notifier.add: n.mu.Lock()
NotifyBegin(m) ==
    /\ Running
    /\ mut[m].pc = "mutated"
    /\ nmu = None
    /\ nmu' = m
    /\ nSent' = nSent + 1
    /\ mut' = [mut EXCEPT ![m].pc = "sending", ![m].i = 1]
    /\ UNCHANGED <<gmu, subs, nMut, recv, subCount, subAt, gridVars, energyVars, orgVars, pkgVars>>

\* notifier.add: ch <- u for the next channel of n.subs, which is open, taken by
\* its receiver when that is at its receive
NotifySend(m) ==
    /\ Running
    /\ mut[m].pc = "sending"
    /\ mut[m].i <= Len(subs)
    /\ subs[mut[m].i] \notin closed
    /\ rdr[subs[mut[m].i]] = "receive"
    /\ recv' = [recv EXCEPT ![subs[mut[m].i]] = Append(@, mut[m].u)]
    /\ mut' = [mut EXCEPT ![m].i = @ + 1]
    /\ UNCHANGED <<gmu, nmu, subs, nMut, nSent, subCount, subAt, gridVars, energyVars, orgVars, pkgVars>>

\* notifier.add: the loop is over, n.mu.Unlock()
NotifyEnd(m) ==
    /\ Running
    /\ mut[m].pc = "sending"
    /\ mut[m].i > Len(subs)
    /\ nmu' = None
    /\ mut' = [mut EXCEPT ![m].pc = "notified"]
    /\ UNCHANGED <<gmu, subs, nMut, nSent, recv, subCount, subAt, gridVars, energyVars, orgVars, pkgVars>>

\* grid.Put: the deferred g.Unlock()
PutEnd(m) ==
    /\ Running
    /\ mut[m].pc = "notified"
    /\ gmu' = None
    /\ mut' = [mut EXCEPT ![m] = IdleMut]
    /\ UNCHANGED <<nmu, subs, nMut, nSent, recv, subCount, subAt, gridVars, energyVars, orgVars, pkgVars>>

\* notifier.Subscribe
Subscribe(c) ==
    /\ Running
    /\ nmu = None
    /\ Len(subs) < MaxSubs
    /\ subCount[c] < MaxSubscribes
    /\ subs' = Append(subs, c)
    /\ subCount' = [subCount EXCEPT ![c] = @ + 1]
    /\ subAt' = [subAt EXCEPT ![c] = nSent]
    /\ UNCHANGED <<gmu, nmu, mut, nMut, nSent, recv, gridVars, energyVars, orgVars, pkgVars>>

\* the subs of notifier.Unsubscribe: those that are not c
RECURSIVE without(_, _)
without(q, c) ==
    IF q = <<>> THEN <<>>
    ELSE IF Head(q) = c THEN without(Tail(q), c)
    ELSE <<Head(q)>> \o without(Tail(q), c)

\* notifier.Unsubscribe
Unsubscribe(c) ==
    /\ Running
    /\ nmu = None
    /\ subs' = without(subs, c)
    /\ UNCHANGED <<gmu, nmu, mut, nMut, nSent, recv, subCount, subAt, gridVars, energyVars, orgVars, pkgVars>>

\* the task that receives from channel c calls Grid.Get: it is at g.RLock()
ReaderGetBegin(c) ==
    /\ Running
    /\ rdr[c] = "receive"
    /\ rdr' = [rdr EXCEPT ![c] = "get"]
    /\ UNCHANGED <<gridVars, energyVars, notifyVars, orgVars,
                   cpuVars, maintVars, censusVars, queueVars, saveVars, ftask, pool, otask, closed, ndone>>

\* Grid.Get of the task of channel c: g.RLock() returns when no mutator holds the
\* lock, then getLocked and g.RUnlock(); the task goes back to its receive
ReaderGetEnd(c) ==
    /\ Running
    /\ rdr[c] = "get"
    /\ gmu = None
    /\ rdr' = [rdr EXCEPT ![c] = "receive"]
    /\ UNCHANGED <<gridVars, energyVars, notifyVars, orgVars,
                   cpuVars, maintVars, censusVars, queueVars, saveVars, ftask, pool, otask, closed, ndone>>

\* whether a channel is in q more than once
twice(q) == \E i, j \in 1..Len(q) : i # j /\ q[i] = q[j]

\* notifier.Done, called by the task of newNotifier when the exit is signalled:
\* with n.mu held it closes every channel of n.subs, which it leaves as it is;
\* closing a channel a second time aborts the process
NotifierDone ==
    /\ Running
    /\ ~ndone
    /\ nmu = None
    /\ ndone' = TRUE
    /\ closed' = {subs[i] : i \in 1..Len(subs)}
    /\ last' = Call("Done", IF twice(subs) THEN "panic" ELSE "ok", Nil, 0, <<>>)
    /\ UNCHANGED <<width, height, data, locs, foodLoc, foodV, energyVars, notifyVars, orgVars,
                   cpuVars, maintVars, censusVars, queueVars, saveVars, ftask, pool, otask, rdr>>

\* notifier.add: ch <- u for the next channel of n.subs, which is closed: a send
\* on a closed channel aborts the process
NotifySendClosed(m) ==
    /\ Running
    /\ mut[m].pc = "sending"
    /\ mut[m].i <= Len(subs)
    /\ subs[mut[m].i] \in closed
    /\ mut' = [mut EXCEPT ![m].pc = "aborted"]
    /\ last' = Call("add", "panic", Nil, 0, <<>>)
    /\ UNCHANGED <<width, height, data, locs, foodLoc, foodV, energyVars,
                   gmu, nmu, subs, nMut, nSent, recv, subCount, subAt, orgVars, pkgVars>>

----------------------------------------------------------------------------
(* org.Organism and the cpu1 driver *)

\* an *Organism before Random() made it: pc is where its Cpu.Run is
NoOrg == [V |-> 0, Dir |-> 0, loc |-> 0, pc |-> "none"]

\* what a pass of the loop of Cpu.Run leaves to observe: the organism and the Op,
\* the error Step returned, the error and the number the organism's method
\* returned, the child it made, the organism's energy when the method was called,
\* whether the method was called, whether Die was, and the batches sent; here
\* no pass was made yet
NoPass ==
    [o |-> Nil, op |-> Nil, err |-> Nil, operr |-> Nil, ret |-> 0, child |-> Nil,
     e0 |-> 0, called |-> FALSE, died |-> FALSE, ups |-> <<>>]

\* the grid, the Foods' levels and the organisms as one value
W == [g |-> G, fv |-> foodV, org |-> org]

\* what a method leaves: the world, the error it returned, the number and the
\* organism it returned, whether it aborted the process, and the batches it sent
Res(w, err, num, child, panic, ups) ==
    [w |-> w, err |-> err, ret |-> num, child |-> child, panic |-> panic, ups |-> ups]

\* r := call; rest(r): what a call returned, handed to the rest of the method
Then(r, rest(_)) == rest(r)

\* locator.Get
locatorGet(g, l, dx, dy) ==
    LET bad == checkValid(g, l) \/ checkLocationInvariant(g, l)
        d == delta(g, l, dx, dy)
        got == getLocked(g, d.x, d.y)
    IN  IF bad \/ got.panic THEN [panic |-> TRUE, loc |-> 0]
        ELSE [panic |-> FALSE, loc |-> got.loc]

\* locator.Put
locatorPut(g, l, dx, dy, n, fn) ==
    LET bad == checkValid(g, l) \/ checkLocationInvariant(g, l)
        d == delta(g, l, dx, dy)
    IN  IF bad THEN [g |-> g, panic |-> TRUE, loc |-> 0, ups |-> <<>>]
        ELSE Then(putLocked(g, d.x, d.y, n, fn), LAMBDA r :
                 IF r.panic THEN [g |-> g, panic |-> TRUE, loc |-> 0, ups |-> <<>>]
                 ELSE [g |-> r.g, panic |-> FALSE, loc |-> r.loc,
                       ups |-> IF r.loc # 0 THEN <<RecordAdd(d.x, d.y, n)>> ELSE <<>>])

\* locator.Move
locatorMove(g, l, dx, dy, fn) ==
    LET bad == checkValid(g, l) \/ checkLocationInvariant(g, l)
        d == delta(g, l, dx, dy)
    IN  IF bad THEN [g |-> g, panic |-> TRUE, ok |-> FALSE, ups |-> <<>>]
        ELSE Then(moveLocked(g, g.locs[l].x, g.locs[l].y, d.x, d.y, fn), LAMBDA r :
                 [g |-> r.g, panic |-> checkValid(r.g, l) \/ checkLocationInvariant(r.g, l),
                  ok |-> r.ok, ups |-> r.ups])

\* Organism.delta
orgDelta(dir, dist) ==
    CASE dir = 0 -> [dx |-> dist, dy |-> 0]
      [] dir = 1 -> [dx |-> dist, dy |-> -dist]
      [] dir = 2 -> [dx |-> 0, dy |-> -dist]
      [] dir = 3 -> [dx |-> -dist, dy |-> -dist]
      [] dir = 4 -> [dx |-> -dist, dy |-> 0]
      [] dir = 5 -> [dx |-> -dist, dy |-> dist]
      [] dir = 6 -> [dx |-> 0, dy |-> dist]
      [] dir = 7 -> [dx |-> dist, dy |-> dist]

\* the values that implement energy.Energetic: *Organism and *Food
Energetic(n) == n \in Orgs \cup AllFoods

\* whether *locator implements energy.Energetic: it has neither Energy nor AddEnergy
LocatorIsEnergetic == FALSE

\* n.Energy()
Energy(w, n) == IF n \in Orgs THEN w.org[n].V ELSE w.fv[n]

\* n.AddEnergy(amt): Store.AddEnergy of an Organism, Food.AddEnergy of a Food
addEnergyTo(w, n, amt) ==
    LET e == addEnergy(Energy(w, n), amt)
    IN  Then(IF n \in AllFoods /\ e.amt # 0 /\ e.nv = 0 THEN foodInvalidate(w.g, n)
             ELSE [g |-> w.g, panic |-> FALSE, ups |-> <<>>], LAMBDA r :
            [w |-> IF n \in Orgs THEN [w EXCEPT !.org[n].V = e.nv]
                   ELSE [w EXCEPT !.fv[n] = e.nv, !.g = r.g],
             amt |-> e.amt, nv |-> e.nv, panic |-> r.panic, ups |-> r.ups])

\* energy.Transfer between two Energetic values of the world
transfer(w, dest, src, amt) ==
    LET d == IF amt < 0 THEN src ELSE dest
        s == IF amt < 0 THEN dest ELSE src
        a == IF amt < 0 THEN -amt ELSE amt
    IN  Then(addEnergyTo(w, s, -a), LAMBDA r1 :
        Then(addEnergyTo(r1.w, d, -r1.amt), LAMBDA r2 :
            [w |-> r2.w, actual |-> -r1.amt, panic |-> r1.panic \/ r2.panic,
             ups |-> r1.ups \o r2.ups]))

\* Organism.Discharge
Discharge(w, o, amt) ==
    LET r == addEnergy(w.org[o].V, -amt)
    IN  [w |-> [w EXCEPT !.org[o].V = r.nv],
         err |-> IF amt # -r.amt THEN "ErrNoEnergy" ELSE Nil]

\* Organism.Die: food.New stores its argument with Store.Reset
Die(w, o) ==
    LET f == FoodOf(o)
        w1 == [w EXCEPT !.fv[f] = int32(w.org[o].V + BodyEnergy)]
    IN  Then(replaceLocked(w1.g, w.org[o].loc, f), LAMBDA r :
            [w |-> [w1 EXCEPT !.g = r.g], panic |-> r.panic, ups |-> r.ups])

\* Organism.Forward
Forward(w, o) ==
    LET d == Discharge(w, o, 1)
        dl == orgDelta(w.org[o].Dir, 1)
    IN  IF d.err # Nil THEN Res(d.w, d.err, 0, Nil, FALSE, <<>>)
        ELSE Then(locatorMove(d.w.g, w.org[o].loc, dl.dx, dl.dy, "PutWhenNil"), LAMBDA m :
                 IF m.panic THEN Res(d.w, Nil, 0, Nil, TRUE, <<>>)
                 ELSE Res([d.w EXCEPT !.g = m.g], IF m.ok THEN Nil ELSE "ErrNotEmpty", 0, Nil,
                          FALSE, m.ups))

\* Organism.Divide: n is the organism Random() makes, dir the direction it draws,
\* and energyFrac is k / FracDen
Divide(w, o, n, dir, k) ==
    LET d == Discharge(w, o, BodyEnergy)
        dl == orgDelta(w.org[o].Dir, 1)
    IN  IF d.err # Nil THEN Res(d.w, d.err, 0, Nil, FALSE, <<>>)
        ELSE Then(locatorPut(d.w.g, w.org[o].loc, dl.dx, dl.dy, n, "PutWhenFood"), LAMBDA p :
                 IF p.panic THEN Res(d.w, Nil, 0, Nil, TRUE, <<>>)
                 ELSE IF p.loc = 0 THEN Res(d.w, "ErrNotEmpty", 0, Nil, FALSE, <<>>)
                 ELSE Then([d.w EXCEPT !.g = p.g,
                                       !.org[n] = [V |-> 0, Dir |-> dir, loc |-> p.loc,
                                                   pc |-> "none"]], LAMBDA w1 :
                      Then(transfer(w1, n, o, (w1.org[o].V * k) \div FracDen), LAMBDA t :
                          Res(t.w, Nil, 0, n, t.panic, p.ups \o t.ups))))

\* the common denominator of the terms of Sense
RECURSIVE SenseScale(_)
SenseScale(i) == IF i = 0 THEN 1 ELSE (i ^ SenseFalloffExp) * SenseScale(i - 1)

\* the loop of Organism.Sense with a nil fn, from distance i on; e is the sum so
\* far, in units of 1 / SenseScale(SenseDistance)
RECURSIVE senseFrom(_, _, _, _)
senseFrom(w, o, i, e) ==
    IF i > SenseDistance THEN [e |-> e, panic |-> FALSE]
    ELSE LET dl == orgDelta(w.org[o].Dir, i)
             got == locatorGet(w.g, w.org[o].loc, dl.dx, dl.dy)
         IN  IF got.panic THEN [e |-> e, panic |-> TRUE]
             ELSE IF got.loc # 0 /\ LocatorIsEnergetic
             THEN senseFrom(w, o, i + 1,
                            e + (Energy(w, Value(w.g, got.loc)) * SenseScale(SenseDistance))
                                    \div (i ^ SenseFalloffExp))
             ELSE senseFrom(w, o, i + 1, e)

\* Organism.Sense(nil)
Sense(w, o) ==
    Then(senseFrom(w, o, 1, 0), LAMBDA r : Res(w, Nil, r.e, Nil, r.panic, <<>>))

\* Organism.Eat for amt >= 0
Eat(w, o, amt) ==
    LET d == Discharge(w, o, (amt + 99) \div 100)
        dl == orgDelta(w.org[o].Dir, 1)
        got == locatorGet(d.w.g, w.org[o].loc, dl.dx, dl.dy)
        n == Value(d.w.g, got.loc)
    IN  IF d.err # Nil THEN Res(d.w, d.err, 0, Nil, FALSE, <<>>)
        ELSE IF got.panic THEN Res(d.w, Nil, 0, Nil, TRUE, <<>>)
        ELSE IF got.loc # 0 /\ Energetic(n)
        THEN Then(transfer(d.w, o, n, amt), LAMBDA t :
                 Res(t.w, Nil, -t.actual, Nil, t.panic, t.ups))
        ELSE Res(d.w, Nil, 0, Nil, FALSE, <<>>)

\* the names of the Ops that act on the organism, and Bad for a byte that readOp
\* finds no Op for
OpNames == {"Eat", "Forward", "Divide", "Sense", "Bad"}

\* Op.Cost
Cost(op) ==
    CASE op = "Eat" -> CostUnit
      [] op = "Forward" -> 2 * CostUnit
      [] OTHER -> 0

\* opDivide
opDivide(w, o, n, dir, k) ==
    LET d == Discharge(w, o, CodeLen)
    IN  IF d.err # Nil THEN Res(d.w, d.err, 0, Nil, FALSE, <<>>)
        ELSE Then(Divide(d.w, o, n, dir, k), LAMBDA r :
                 IF r.err = "ErrNotEmpty" THEN [r EXCEPT !.err = Nil]
                 ELSE IF r.err # Nil \/ r.panic THEN r
                 ELSE [r EXCEPT !.w.org[n].pc = "run"])

\* opForward that would hand ErrNotEmpty on to Step
opForward_Fatal(w, o) == Forward(w, o)

\* opForward
opForward(w, o) ==
    Then(Forward(w, o), LAMBDA r : IF r.err = "ErrNotEmpty" THEN [r EXCEPT !.err = Nil] ELSE r)

\* op.Fn(o, c)
opFn(w, o, op, amt, n, dir, k) ==
    CASE op = "Eat" -> Eat(w, o, amt)
      [] op = "Forward" -> opForward(w, o)
      [] op = "Divide" -> opDivide(w, o, n, dir, k)
      [] op = "Sense" -> Sense(w, o)
      [] OTHER -> Res(w, Nil, 0, Nil, FALSE, <<>>)

\* Cpu.Step: called tells whether op.Fn was reached
Step(w, o, op, amt, n, dir, k) ==
    LET d == Discharge(w, o, 1 + Cost(op))
    IN  IF op = "Bad" THEN [r |-> Res(w, "unableToReadErr", 0, Nil, FALSE, <<>>), called |-> FALSE]
        ELSE IF d.err # Nil THEN [r |-> Res(d.w, d.err, 0, Nil, FALSE, <<>>), called |-> FALSE]
        ELSE [r |-> opFn(d.w, o, op, amt, n, dir, k), called |-> TRUE]

\* the world when Step calls the organism's method for op: after the Discharge of
\* Step and, for Divide, the Discharge of opDivide
atCall(w, o, op) ==
    LET d == Discharge(w, o, 1 + Cost(op)).w
    IN  IF op = "Divide" THEN Discharge(d, o, CodeLen).w ELSE d

\* the organisms Random() has not made yet
Unmade == {i \in 1..MaxOrgs : org[OrgNames[i]].pc = "none" /\ org[OrgNames[i]].loc = 0}

\* the next organism Random() makes
NextOrg == OrgNames[CHOOSE i \in Unmade : \A j \in Unmade : i <= j]

\* Cpu.Run that would carry on after an error
run_NoDie(w, o, err) == [w |-> w, panic |-> FALSE, ups |-> <<>>, died |-> FALSE]

\* Cpu.Run, what follows a Step that returned err: Die and return
run(w, o, err) ==
    IF err = Nil THEN [w |-> w, panic |-> FALSE, ups |-> <<>>, died |-> FALSE]
    ELSE Then(Die(w, o), LAMBDA d :
             [w |-> [d.w EXCEPT !.org[o].pc = "dead"], panic |-> d.panic, ups |-> d.ups,
              died |-> TRUE])

\* startOrg: Random(), AddEnergy(initialEnergy), and PutRandomly with PutWhenFood
\* until a cell takes the organism; then its Run is started
StartOrg(dir) ==
    /\ Running
    /\ Unmade # {}
    /\ \E x \in 0..(width - 1), y \in 0..(height - 1), o \in {NextOrg} :
          \E r \in {putLockedWithNotify(G, x, y, o, "PutWhenFood")} :
              /\ r.loc # 0
              /\ SetG(r.g)
              /\ org' = [org EXCEPT ![o] = [V |-> addEnergy(0, InitialEnergy).nv, Dir |-> dir,
                                            loc |-> r.loc, pc |-> "run"]]
              /\ last' = Call("GridPutRandomly", "ok", r.orig, r.loc, r.ups)
    /\ UNCHANGED <<foodV, olast, energyVars, notifyVars, pkgVars>>

\* one pass of the loop of Cpu.Run(o): Step, and Die when it returned an error
Run(o, op, amt, dir, k) ==
    /\ Running
    /\ org[o].pc = "run"
    /\ op = "Divide" => Unmade # {}
    /\ \E n \in {IF Unmade # {} THEN NextOrg ELSE Nil}, c \in {atCall(W, o, op)} :
       \E s \in {Step(W, o, op, amt, n, dir, k)} :
       \E d \in {IF s.r.panic
                  THEN [w |-> s.r.w, panic |-> TRUE, ups |-> <<>>, died |-> FALSE]
                  ELSE run(s.r.w, o, s.r.err)} :
       \E operr \in {CASE ~s.called -> Nil
                        [] s.called /\ op = "Forward" -> Forward(c, o).err
                        [] s.called /\ op = "Divide" -> Divide(c, o, n, dir, k).err
                        [] OTHER -> s.r.err} :
          /\ SetG(d.w.g)
          /\ foodV' = d.w.fv
          /\ org' = d.w.org
          /\ olast' = [o |-> o, op |-> op, err |-> s.r.err, operr |-> operr, ret |-> s.r.ret,
                       child |-> s.r.child, e0 |-> c.org[o].V, called |-> s.called,
                       died |-> d.died, ups |-> s.r.ups \o d.ups]
          /\ last' = Call("Run", IF d.panic THEN "panic" ELSE "ok", Nil, 0, <<>>)
    /\ UNCHANGED <<energyVars, notifyVars, pkgVars>>

----------------------------------------------------------------------------
(* cpu1.Cpu: the fetch of an instruction and Step *)

LenOps == 45                         \* len(Ops)
NilOp == -1                          \* a nil *Op

\* the bytes found in Code here: XXX, SwapAD, Zero, Inc and Jump, then the first
\* bytes past the table and the last byte
CodeBytes == {0, 15, 16, 20, 37, LenOps, LenOps + 1, 255}
Codes == UNION {[1..n -> CodeBytes] : n \in 1..MaxCode}

\* a Cpu that was not made yet; pc is where the Run that steps it is
NoCpu == [Ip |-> 0, Code |-> <<0>>, R |-> <<0, 0, 0, 0>>, V |-> 0, pc |-> "none"]

\* what a Step leaves to observe: the byte at the instruction pointer, the Op
\* readOp returned, the error Step returned, whether it aborted, and how many
\* calls of Step the loop of Run has made; here no Step was made yet
NoStep == [b |-> -1, op |-> NilOp, err |-> Nil, panic |-> FALSE, n |-> 0]

\* the remainder of Go's integer division, which truncates
goRem(a, n) == IF a >= 0 THEN a % n ELSE -((-a) % n)

\* asUByte
asUByte(v) == v % 256

\* Cpu.readOp: c.Ip %= len(c.Code), the checks of c.Ip and of the byte, &Ops[b]
\* (which aborts for an index past the table)
readOp(c) ==
    LET ip == goRem(c.Ip, Len(c.Code))
        b == c.Code[ip + 1]
    IN  IF ip < 0 THEN [b |-> -1, op |-> NilOp, ip |-> ip + 1, panic |-> FALSE]
        ELSE IF b < 0 \/ b > LenOps % 256
        THEN [b |-> b, op |-> NilOp, ip |-> ip + 1, panic |-> FALSE]
        ELSE [b |-> b, op |-> b, ip |-> ip + 1, panic |-> b >= LenOps]

\* Ops[b].Cost
opCost(b) ==
    CASE b \in {38, 39, 40} -> CostUnit
      [] b = 41 -> 2 * CostUnit
      [] OTHER -> 0

\* the bytes found in the Code of the jumps to labels: XXX, L1, L2, Jump1 and
\* JumpR1
JumpBytes == {0, 1, 2, 5, 9}
JumpCodes == UNION {[1..n -> JumpBytes] : n \in 1..MaxJumpCode}

\* for i := from; i < to; i++ { if c[i] == byte(value) { return i } }, and -1 when
\* the loop ends
RECURSIVE scanUp(_, _, _, _)
scanUp(code, value, from, to) ==
    IF from >= to THEN -1
    ELSE IF code[from + 1] = value % 256 THEN from
    ELSE scanUp(code, value, from + 1, to)

\* for i := from; i > to; i-- { if c[i] == byte(value) { return i } }, and -1 when
\* the loop ends
RECURSIVE scanDown(_, _, _, _)
scanDown(code, value, from, to) ==
    IF from <= to THEN -1
    ELSE IF code[from + 1] = value % 256 THEN from
    ELSE scanDown(code, value, from - 1, to)

\* Bytecode.find
find(code, value, start) ==
    LET a == scanUp(code, value, start, Len(code))
        b == scanUp(code, value, 0, start)
    IN  IF a >= 0 THEN a ELSE IF b >= 0 THEN b ELSE 0

\* Bytecode.findBackward
findBackward(code, value, start) ==
    LET a == scanDown(code, value, Len(code) - 1, start)
        b == scanUp(code, value, 0, start)
    IN  IF a >= 0 THEN a ELSE IF b >= 0 THEN b ELSE 0

\* Ops[b].Fn(o, c) for the Ops in CodeBytes and JumpBytes: opNoop, opJump1..4,
\* opJumpR1..4, opSwapAD, opZero, opInc, opJump
cpuFn(c, b) ==
    CASE b \in 5..8 -> [c EXCEPT !.Ip = find(c.Code, b - 4, c.Ip)]
      [] b \in 9..12 -> [c EXCEPT !.Ip = findBackward(c.Code, b - 8, c.Ip)]
      [] b = 15 -> [c EXCEPT !.R[1] = c.R[4], !.R[4] = c.R[1]]
      [] b = 16 -> [c EXCEPT !.R[1] = 0]
      [] b = 20 -> [c EXCEPT !.R[1] = asUByte(c.R[1] + 1)]
      [] b = 37 -> [c EXCEPT !.Ip = c.R[4]]
      [] OTHER -> c

\* a Cpu with the given Code is made for an organism with initialEnergy
NewCpu(code) ==
    /\ cpu.pc \in {"none", "dead"}
    /\ cpu' = [Ip |-> 0, Code |-> code, R |-> <<0, 0, 0, 0>>, V |-> InitialEnergy, pc |-> "run"]
    /\ clast' = NoStep
    /\ UNCHANGED <<gridVars, energyVars, notifyVars, orgVars, maintVars, moreVars>>

\* one pass of the loop of Cpu.Run, seen from the Cpu: Step, and the return of
\* Run when Step returned an error
CpuStep ==
    /\ cpu.pc = "run"
    /\ LET r == readOp(cpu)
           amt == 1 + opCost(r.op)
           d == addEnergy(cpu.V, -amt)
       IN  IF r.panic
           THEN /\ cpu' = [cpu EXCEPT !.Ip = goRem(cpu.Ip, Len(cpu.Code)), !.pc = "aborted"]
                /\ clast' = [b |-> r.b, op |-> NilOp, err |-> Nil, panic |-> TRUE,
                             n |-> clast.n + 1]
           ELSE IF r.op = NilOp
           THEN /\ cpu' = [cpu EXCEPT !.Ip = r.ip, !.pc = "dead"]
                /\ clast' = [b |-> r.b, op |-> NilOp, err |-> "unableToReadErr", panic |-> FALSE,
                             n |-> clast.n + 1]
           ELSE IF amt # -d.amt
           THEN /\ cpu' = [cpu EXCEPT !.Ip = r.ip, !.V = d.nv, !.pc = "dead"]
                /\ clast' = [b |-> r.b, op |-> r.op, err |-> "ErrNoEnergy", panic |-> FALSE,
                             n |-> clast.n + 1]
           ELSE /\ cpu' = cpuFn([cpu EXCEPT !.Ip = r.ip, !.V = d.nv], r.op)
                /\ clast' = [b |-> r.b, op |-> r.op, err |-> Nil, panic |-> FALSE,
                             n |-> clast.n + 1]
    /\ UNCHANGED <<gridVars, energyVars, notifyVars, orgVars, maintVars, moreVars>>

----------------------------------------------------------------------------
(* maintain.Maintain *)

\* the counterFn main passes to Maintain
isOrg(v) == v \in Orgs

\* the Updates the other tasks publish: Add, Remove, Replace and Move of counted
\* and uncounted occupants
MUpdates ==
    {Update(NoPoint, Point(0, 0, "o1")), Update(NoPoint, Point(0, 0, "f1")),
     Update(Point(0, 0, "o1"), NoPoint), Update(Point(0, 0, "f1"), NoPoint),
     Update(Point(0, 0, "o1"), Point(0, 0, "d1")), Update(Point(0, 0, "f1"), Point(0, 0, "o1")),
     Update(Point(0, 0, "o1"), Point(0, 0, "o2")), Update(Point(0, 0, "o1"), Point(1, 0, "o1"))}
Batches == UNION {[1..n -> MUpdates] : n \in 1..MaxBatch}

\* no batch was received yet
NoBatch == [ups |-> <<>>, before |-> 0, after |-> 0, go |-> 0]

\* the body of Maintain's loop for one Update that would start fn whenever the
\* count is below keep, whatever the Update was
tally_Eager(st, u) ==
    LET c1 == IF (IsAdd(u) \/ IsReplace(u)) /\ isOrg(u.New.V) THEN st.count + 1 ELSE st.count
        counted == (IsRemove(u) \/ IsReplace(u)) /\ isOrg(u.Old.V)
        c2 == IF counted THEN c1 - 1 ELSE c1
    IN  [count |-> c2, go |-> st.go + (IF c2 < Keep THEN 1 ELSE 0)]

\* the body of Maintain's loop for one Update that would start fn only when the
\* count has dropped below keep - 1
tally_Late(st, u) ==
    LET c1 == IF (IsAdd(u) \/ IsReplace(u)) /\ isOrg(u.New.V) THEN st.count + 1 ELSE st.count
        counted == (IsRemove(u) \/ IsReplace(u)) /\ isOrg(u.Old.V)
        c2 == IF counted THEN c1 - 1 ELSE c1
    IN  [count |-> c2, go |-> st.go + (IF counted /\ c2 < Keep - 1 THEN 1 ELSE 0)]

\* the body of Maintain's loop for one Update: st is the count and the number of
\* "go fn()" statements executed for this batch so far
tally(st, u) ==
    LET c1 == IF (IsAdd(u) \/ IsReplace(u)) /\ isOrg(u.New.V) THEN st.count + 1 ELSE st.count
        counted == (IsRemove(u) \/ IsReplace(u)) /\ isOrg(u.Old.V)
        c2 == IF counted THEN c1 - 1 ELSE c1
    IN  [count |-> c2, go |-> st.go + (IF counted /\ c2 < Keep THEN 1 ELSE 0)]

\* for _, u := range updates
RECURSIVE tallyAll(_, _)
tallyAll(st, ups) == IF ups = <<>> THEN st ELSE tallyAll(tally(st, Head(ups)), Tail(ups))

\* what an Update adds to the counted occupants of the grid
popDelta(u) ==
    (IF u.New # NoPoint /\ isOrg(u.New.V) THEN 1 ELSE 0)
        - (IF u.Old # NoPoint /\ isOrg(u.Old.V) THEN 1 ELSE 0)
RECURSIVE popAfter(_, _)
popAfter(p, ups) == IF ups = <<>> THEN p ELSE popAfter(p + popDelta(Head(ups)), Tail(ups))

\* Maintain is called with the count of the grid: it sets its count and, when
\* that is below keep, starts the task that calls fn keep - count times
MaintainStart(initial) ==
    /\ mt.pc = "none"
    /\ mt' = [pc |-> "loop", count |-> initial,
              seed |-> IF initial < Keep THEN Keep - initial ELSE 0]
    /\ pop' = initial
    /\ UNCHANGED <<spawning, mch, nPub, mlast>>
    /\ UNCHANGED <<gridVars, energyVars, notifyVars, orgVars, cpuVars, moreVars>>

\* fn, as main passes it: startOrg puts one organism and its Add is published
startOrgPublishes ==
    /\ pop < MaxPop
    /\ Len(mch) < MaxQueued
    /\ pop' = pop + 1
    /\ mch' = Append(mch, [ups |-> RecordAdd(0, 0, "o1"), spawned |-> TRUE])

\* the seeding task calls fn once more
SeedSpawn ==
    /\ mt.pc = "loop"
    /\ mt.seed > 0
    /\ startOrgPublishes
    /\ mt' = [mt EXCEPT !.seed = @ - 1]
    /\ UNCHANGED <<spawning, nPub, mlast>>
    /\ UNCHANGED <<gridVars, energyVars, notifyVars, orgVars, cpuVars, moreVars>>

\* a task started by "go fn()" runs fn
SpawnRun ==
    /\ spawning > 0
    /\ startOrgPublishes
    /\ spawning' = spawning - 1
    /\ UNCHANGED <<mt, nPub, mlast>>
    /\ UNCHANGED <<gridVars, energyVars, notifyVars, orgVars, cpuVars, moreVars>>

\* another task changes the grid and its batch of Updates is published
Publish(ups) ==
    /\ mt.pc = "loop"
    /\ nPub < MaxPublish
    /\ Len(mch) < MaxQueued
    /\ \A n \in 1..Len(ups) : popAfter(pop, SubSeq(ups, 1, n)) \in 0..MaxPop
    /\ pop' = popAfter(pop, ups)
    /\ mch' = Append(mch, [ups |-> ups, spawned |-> FALSE])
    /\ nPub' = nPub + 1
    /\ UNCHANGED <<mt, spawning, mlast>>
    /\ UNCHANGED <<gridVars, energyVars, notifyVars, orgVars, cpuVars, moreVars>>

\* one pass of "for updates := range ch": the batch is received and every Update
\* of it is tallied
MaintainRecv ==
    /\ mt.pc = "loop"
    /\ mch # <<>>
    /\ \E st \in {tallyAll([count |-> mt.count, go |-> 0], Head(mch).ups)} :
          /\ mt' = [mt EXCEPT !.count = st.count]
          /\ spawning' = spawning + st.go
          /\ mlast' = [ups |-> Head(mch).ups, before |-> mt.count, after |-> st.count,
                       go |-> st.go]
    /\ mch' = Tail(mch)
    /\ UNCHANGED <<pop, nPub>>
    /\ UNCHANGED <<gridVars, energyVars, notifyVars, orgVars, cpuVars, moreVars>>

----------------------------------------------------------------------------
(* census.MemCensus and census.DirCensus *)

\* a Key is known to the census by its Hash() alone; the keys are their hashes
CensusKeys == {10, 256}
NoWhen == 0     \* a nil First or Last; the times passed as when start at 1
NilThreshold == -1      \* a nil DirCensus.Threshold
Thresholds == {NilThreshold} \cup 1..MaxThreshold   \* func(p) bool { return p.Count > t }

Population(key, count, first, lst) == [Key |-> key, Count |-> count, First |-> first, Last |-> lst]
\* no entry in MemCensus.seen, and the zero Population
NoPop == Population(-1, 0, NoWhen, NoWhen)
\* no file of that name
NoFile == Population(-1, -1, NoWhen, NoWhen)

NewMemCensus ==
    [seen |-> [k \in CensusKeys |-> NoPop], count |-> 0, countAll |-> 0,
     distinct |-> 0, distinctAll |-> 0]

HexDigits == <<"0", "1", "2", "3", "4", "5", "6", "7", "8", "9", "a", "b", "c", "d", "e", "f">>

\* fmt.Sprintf("%x", h)
RECURSIVE hex(_)
hex(h) ==
    IF h < 16 THEN <<HexDigits[h + 1]>>
    ELSE hex(h \div 16) \o <<HexDigits[(h % 16) + 1]>>

\* DirCensus.filename, as the name within Dir
filename(key) == hex(key)
FileNames == {filename(k) : k \in CensusKeys}

NoHist ==
    [adds |-> [k \in CensusKeys |-> 0], removes |-> [k \in CensusKeys |-> 0],
     creates |-> [n \in FileNames |-> 0], calls |-> 0, made |-> FALSE]
NoCensusCall ==
    [op |-> "none", key |-> -1, when |-> NoWhen, ret |-> NoPop, panic |-> FALSE,
     existed |-> FALSE]
CensusCall(op, key, when, r, panic, existed) ==
    [op |-> op, key |-> key, when |-> when, ret |-> r, panic |-> panic, existed |-> existed]

\* MemCensus.Get
memGet(b, key) ==
    IF b.seen[key] # NoPop THEN [p |-> b.seen[key], ok |-> TRUE]
    ELSE [p |-> NoPop, ok |-> FALSE]

\* MemCensus.Add
memAdd(b, when, key) ==
    LET ok == b.seen[key] # NoPop
        c0 == IF ok THEN b.seen[key] ELSE Population(key, 0, when, NoWhen)
        c == [c0 EXCEPT !.Count = @ + 1]
    IN  [b |-> [seen |-> [b.seen EXCEPT ![key] = c],
                count |-> b.count + 1,
                countAll |-> b.countAll + 1,
                distinct |-> IF ok THEN b.distinct ELSE b.distinct + 1,
                distinctAll |-> IF ok THEN b.distinctAll ELSE b.distinctAll + 1],
         ret |-> c, panic |-> FALSE]

\* MemCensus.Remove
memRemove(b, when, key) ==
    LET ok == b.seen[key] # NoPop
        c1 == [b.seen[key] EXCEPT !.Count = @ - 1]
        c == IF c1.Count = 0 THEN [c1 EXCEPT !.Last = when] ELSE c1
    IN  IF ~ok THEN [b |-> b, ret |-> NoPop, panic |-> TRUE]
        ELSE [b |-> [seen |-> [b.seen EXCEPT ![key] = IF c1.Count = 0 THEN NoPop ELSE c],
                     count |-> b.count - 1,
                     countAll |-> b.countAll,
                     distinct |-> IF c1.Count = 0 THEN b.distinct - 1 ELSE b.distinct,
                     distinctAll |-> b.distinctAll],
              ret |-> c, panic |-> FALSE]

Count(b) == b.count
CountAllTime(b) == b.countAll
Distinct(b) == b.distinct
DistinctAllTime(b) == b.distinctAll

\* an IsRecorded that never finds the file
IsRecorded_Never(fs, key) == FALSE

\* DirCensus.IsRecorded: deps.Stat finds the file
IsRecorded(fs, key) == fs[filename(key)] # NoFile

\* DirCensus.Record: deps.Create truncates or creates the file and the Population is encoded into it
Record(fs, c) == [fs EXCEPT ![filename(c.Key)] = c]

\* b.Threshold == nil || b.Threshold(c)
thresholdHolds(t, c) == t = NilThreshold \/ c.Count > t

\* the call is counted; after a panic nothing is called any more
called(h) == [h EXCEPT !.calls = @ + 1]
CanCall == hist.calls < MaxCalls /\ ~cenlast.panic

\* a MemCensus of its own: Add
MemAdd(key) ==
    /\ CanCall
    /\ ~hist.made
    /\ \E when \in {hist.calls + 1} : \E r \in {memAdd(cen, when, key)} :
        /\ cen' = r.b
        /\ hist' = [called(hist) EXCEPT !.adds[key] = @ + 1]
        /\ cenlast' = CensusCall("Add", key, when, r.ret, FALSE, FALSE)
    /\ UNCHANGED <<files, numRecorded, thr>>
    /\ UNCHANGED <<gridVars, energyVars, notifyVars, orgVars, cpuVars, maintVars, queueVars, saveVars, taskVars>>

\* a MemCensus of its own: Remove
MemRemove(key) ==
    /\ CanCall
    /\ ~hist.made
    /\ \E when \in {hist.calls + 1} : \E r \in {memRemove(cen, when, key)} :
        /\ cen' = r.b
        /\ hist' = [called(hist) EXCEPT !.removes[key] = @ + 1]
        /\ cenlast' = CensusCall("Remove", key, when, r.ret, r.panic, FALSE)
    /\ UNCHANGED <<files, numRecorded, thr>>
    /\ UNCHANGED <<gridVars, energyVars, notifyVars, orgVars, cpuVars, maintVars, queueVars, saveVars, taskVars>>

\* NewDirCensus(dir, threshold) over a directory that holds the files ls of an earlier run
NewDirCensus(threshold, ls) ==
    /\ ~hist.made
    /\ hist.calls = 0
    /\ thr' = threshold
    /\ files' = [n \in FileNames |->
                    IF n \in ls THEN Population(CHOOSE k \in CensusKeys : filename(k) = n, 1, NoWhen, NoWhen)
                    ELSE NoFile]
    /\ numRecorded' = Cardinality(ls)
    /\ hist' = [hist EXCEPT !.made = TRUE]
    /\ cenlast' = CensusCall("New", -1, NoWhen, NoPop, FALSE, FALSE)
    /\ UNCHANGED cen
    /\ UNCHANGED <<gridVars, energyVars, notifyVars, orgVars, cpuVars, maintVars, queueVars, saveVars, taskVars>>

\* DirCensus.Add
DirAdd(key) ==
    /\ CanCall
    /\ hist.made
    /\ \E when \in {hist.calls + 1} : \E r \in {memAdd(cen, when, key)} :
        \E rec \in {thresholdHolds(thr, r.ret) /\ ~IsRecorded(files, key)} :
            /\ cen' = r.b
            /\ files' = IF rec THEN Record(files, r.ret) ELSE files
            /\ numRecorded' = IF rec THEN numRecorded + 1 ELSE numRecorded
            /\ hist' = [called(hist) EXCEPT !.adds[key] = @ + 1,
                                            !.creates[filename(key)] = IF rec THEN @ + 1 ELSE @]
            /\ cenlast' = CensusCall("Add", key, when, r.ret, FALSE, IsRecorded(files, key))
    /\ UNCHANGED thr
    /\ UNCHANGED <<gridVars, energyVars, notifyVars, orgVars, cpuVars, maintVars, queueVars, saveVars, taskVars>>

\* DirCensus.Remove
DirRemove(key) ==
    /\ CanCall
    /\ hist.made
    /\ \E when \in {hist.calls + 1} : \E r \in {memRemove(cen, when, key)} :
        \E rec \in {~r.panic /\ r.ret.Count = 0 /\ IsRecorded(files, r.ret.Key)} :
            /\ cen' = r.b
            /\ files' = IF rec THEN Record(files, r.ret) ELSE files
            /\ hist' = [called(hist) EXCEPT !.removes[key] = @ + 1,
                                            !.creates[filename(key)] = IF rec THEN @ + 1 ELSE @]
            /\ cenlast' = CensusCall("Remove", key, when, r.ret, r.panic, IsRecorded(files, key))
    /\ UNCHANGED <<thr, numRecorded>>
    /\ UNCHANGED <<gridVars, energyVars, notifyVars, orgVars, cpuVars, maintVars, queueVars, saveVars, taskVars>>

----------------------------------------------------------------------------
(* chanbuf: limitQueue, ringQueue and triggerQueue *)

\* Every method holds cond.L from its first to its last statement and Wait
\* gives it up only while the method is blocked, so a call is one step and a
\* blocked Get is a Get that cannot take its step yet.

NilValue == 0       \* the nil Value of a fresh ring cell; the values Put are 1, 2, ...
LimitSizes == -1..MaxSize       \* Unlimited() is Limit(-1), Discard() is Limit(0)
RingSizes == 1..MaxSize

NoQueue ==
    [kind |-> "none", limit |-> 0, values |-> <<>>, cells |-> <<>>, read |-> -1,
     insert |-> 0, triggered |-> FALSE, done |-> FALSE]
NoQueueHist == [puts |-> <<>>, since |-> <<>>, gets |-> <<>>, nGet |-> 0]
NoQueueCall == [op |-> "none", values |-> <<>>, ok |-> FALSE, panic |-> FALSE]
QueueCall(op, values, ok, panic) == [op |-> op, values |-> values, ok |-> ok, panic |-> panic]

\* Limit(size)
Limit(size) == [NoQueue EXCEPT !.kind = "limit", !.limit = size]

\* Ring(size): ring.New(size) is a ring of size cells, held here by the index
\* of the cell; read starts at insert, and a nil read is -1
Ring(size) ==
    [NoQueue EXCEPT !.kind = "ring", !.cells = [i \in 1..size |-> NilValue],
                    !.insert = 0, !.read = 0]

\* Trigger()
Trigger == [NoQueue EXCEPT !.kind = "trigger"]

\* ring.Ring.Next
ringNext(q, at) == (at + 1) % Len(q.cells)

\* a limitQueue.Put that makes room for the new value by dropping the oldest
limitPut_KeepLast(q, value) ==
    IF q.limit < 0 \/ Len(q.values) < q.limit THEN [q EXCEPT !.values = Append(@, value)]
    ELSE IF q.limit = 0 THEN q
    ELSE [q EXCEPT !.values = Append(SubSeq(@, 2, Len(@)), value)]

\* limitQueue.Put, past the check of done
limitPut(q, value) ==
    IF q.limit < 0 \/ Len(q.values) < q.limit THEN [q EXCEPT !.values = Append(@, value)]
    ELSE q

\* ringQueue.Put, past the check of done
ringPut(q, value) ==
    [q EXCEPT !.cells[q.insert + 1] = value,
              !.read = IF q.read = -1 THEN q.insert
                       ELSE IF q.read = q.insert THEN ringNext(q, q.read)
                       ELSE q.read,
              !.insert = ringNext(q, q.insert)]

\* triggerQueue.Put, past the check of done
triggerPut(q, value) == [q EXCEPT !.triggered = TRUE]

\* the condition of the loop around cond.Wait in Get
getBlocks(q) ==
    CASE q.kind = "limit" -> Len(q.values) = 0 /\ ~q.done
      [] q.kind = "ring" -> q.read = -1 /\ ~q.done
      [] q.kind = "trigger" -> ~q.triggered /\ ~q.done
      [] OTHER -> TRUE

\* limitQueue.Get, past the wait
limitGet(q) ==
    IF Len(q.values) = 0 THEN [q |-> q, values |-> <<>>, ok |-> FALSE]
    ELSE [q |-> [q EXCEPT !.values = <<>>], values |-> q.values, ok |-> TRUE]

\* the loop of ringQueue.Get: the Value at read is appended, read moves on,
\* until it meets insert
RECURSIVE ringCollect(_, _, _)
ringCollect(q, at, values) ==
    IF ringNext(q, at) = q.insert THEN Append(values, q.cells[at + 1])
    ELSE ringCollect(q, ringNext(q, at), Append(values, q.cells[at + 1]))

\* ringQueue.Get, past the wait
ringGet(q) ==
    IF q.read = -1 THEN [q |-> q, values |-> <<>>, ok |-> FALSE]
    ELSE [q |-> [q EXCEPT !.read = -1], values |-> ringCollect(q, q.read, <<>>), ok |-> TRUE]

\* triggerQueue.Get, past the wait
triggerGet(q) ==
    IF ~q.triggered THEN [q |-> q, values |-> <<>>, ok |-> FALSE]
    ELSE [q |-> [q EXCEPT !.triggered = FALSE], values |-> <<>>, ok |-> TRUE]

\* the queue is made
NewQueue(q) ==
    /\ que.kind = "none"
    /\ que' = q
    /\ qlast' = QueueCall("New", <<>>, FALSE, FALSE)
    /\ UNCHANGED qhist
    /\ UNCHANGED <<gridVars, energyVars, notifyVars, orgVars, cpuVars, maintVars, censusVars, saveVars, taskVars>>

\* the producer calls Put with the next value; a Put after Done panics
QueuePut ==
    /\ que.kind # "none"
    /\ ~qlast.panic
    /\ Len(qhist.puts) < MaxPuts
    /\ \E value \in {Len(qhist.puts) + 1} :
        /\ que' = IF que.done THEN que
                  ELSE CASE que.kind = "limit" -> limitPut(que, value)
                         [] que.kind = "ring" -> ringPut(que, value)
                         [] OTHER -> triggerPut(que, value)
        /\ qhist' = [qhist EXCEPT !.puts = Append(@, value), !.since = Append(@, value)]
        /\ qlast' = QueueCall("Put", <<value>>, FALSE, que.done)
    /\ UNCHANGED <<gridVars, energyVars, notifyVars, orgVars, cpuVars, maintVars, censusVars, saveVars, taskVars>>

\* the producer calls Done
QueueDone ==
    /\ que.kind # "none"
    /\ ~qlast.panic
    /\ ~que.done
    /\ que' = [que EXCEPT !.done = TRUE]
    /\ qlast' = QueueCall("Done", <<>>, FALSE, FALSE)
    /\ UNCHANGED qhist
    /\ UNCHANGED <<gridVars, energyVars, notifyVars, orgVars, cpuVars, maintVars, censusVars, saveVars, taskVars>>

\* the consumer's Get returns
QueueGet ==
    /\ que.kind # "none"
    /\ ~qlast.panic
    /\ ~getBlocks(que)
    /\ \E r \in {CASE que.kind = "limit" -> limitGet(que)
                   [] que.kind = "ring" -> ringGet(que)
                   [] OTHER -> triggerGet(que)} :
        /\ que' = r.q
        /\ qhist' = [qhist EXCEPT !.since = <<>>, !.gets = @ \o r.values,
                                  !.nGet = IF @ < 2 THEN @ + 1 ELSE @]
        /\ qlast' = QueueCall("Get", r.values, r.ok, FALSE)
    /\ UNCHANGED <<gridVars, energyVars, notifyVars, orgVars, cpuVars, maintVars, censusVars, saveVars, taskVars>>

----------------------------------------------------------------------------
(* autosave.Save and autosave.Loop *)

\* a file: absent, or holding the first written of the Chunks of the snapshot snap
AbsentFile == [exists |-> FALSE, snap |-> -1, written |-> 0]
File(snap, written) == [exists |-> TRUE, snap |-> snap, written |-> written]
Complete(f) == f.exists /\ f.written = Chunks

NoSave == [pc |-> "idle", snap |-> -1, err |-> Nil, prev |-> AbsentFile, n |-> 0]

\* ioutil.TempFile(dir, "autosave"): a new, empty file of a name no file has
tempFile(d) == [d EXCEPT !["temp"] = File(-1, 0)]

\* one write of enc.Encode(g) into f
encodeInto_Path(d, snap) == [d EXCEPT !["path"] = File(snap, IF @.exists /\ @.snap = snap THEN @.written + 1 ELSE 1)]

encodeInto(d, snap) == [d EXCEPT !["temp"] = File(snap, @.written + 1)]

\* os.Remove(f.Name())
removeTemp(d) == [d EXCEPT !["temp"] = AbsentFile]

\* os.Rename(f.Name(), filename): the name filename is given to the temporary file at once
rename(d) == [d EXCEPT !["path"] = d["temp"], !["temp"] = AbsentFile]

\* Save has returned err
saveReturns(err) == [save EXCEPT !.pc = "returned", !.err = err]

\* Loop: the ticker fires and Save is called, as long as no Save has failed
LoopTick ==
    /\ save.pc \in {"idle", "returned"}
    /\ save.err = Nil
    /\ save.n < MaxSaves
    /\ save' = [pc |-> "MkdirAll", snap |-> -1, err |-> Nil, prev |-> disk["path"], n |-> save.n + 1]
    /\ UNCHANGED <<disk, gen>>
    /\ UNCHANGED <<gridVars, energyVars, notifyVars, orgVars, cpuVars, maintVars, censusVars, queueVars, taskVars>>

\* Save: os.MkdirAll(dir, 0755)
SaveMkdirAll(ok) ==
    /\ save.pc = "MkdirAll"
    /\ save' = IF ok THEN [save EXCEPT !.pc = "TempFile"] ELSE saveReturns("MkdirAll")
    /\ UNCHANGED <<disk, gen>>
    /\ UNCHANGED <<gridVars, energyVars, notifyVars, orgVars, cpuVars, maintVars, censusVars, queueVars, taskVars>>

\* Save: ioutil.TempFile(dir, "autosave")
SaveTempFile(ok) ==
    /\ save.pc = "TempFile"
    /\ save' = IF ok THEN [save EXCEPT !.pc = "Encode"] ELSE saveReturns("TempFile")
    /\ disk' = IF ok THEN tempFile(disk) ELSE disk
    /\ UNCHANGED gen
    /\ UNCHANGED <<gridVars, energyVars, notifyVars, orgVars, cpuVars, maintVars, censusVars, queueVars, taskVars>>

\* Save: enc.Encode(g). GobEncode takes the snapshot of the grid, which is
\* then written to f piece by piece; when it fails, at GobEncode or at any
\* write, the temporary file is removed and Save returns the error
SaveEncode(ok) ==
    /\ save.pc = "Encode"
    /\ \E snap \in {IF save.snap = -1 THEN gen ELSE save.snap} :
        IF ok
        THEN /\ disk' = encodeInto(disk, snap)
             /\ save' = [save EXCEPT !.snap = snap,
                                     !.pc = IF disk'["temp"].written = Chunks THEN "Rename" ELSE "Encode"]
        ELSE /\ disk' = removeTemp(disk)
             /\ save' = saveReturns("Encode")
    /\ UNCHANGED gen
    /\ UNCHANGED <<gridVars, energyVars, notifyVars, orgVars, cpuVars, maintVars, censusVars, queueVars, taskVars>>

\* Save: os.Rename(f.Name(), filename); when it fails the temporary file is removed
SaveRename(ok) ==
    /\ save.pc = "Rename"
    /\ disk' = IF ok THEN rename(disk) ELSE removeTemp(disk)
    /\ save' = IF ok THEN saveReturns(Nil) ELSE saveReturns("Rename")
    /\ UNCHANGED gen
    /\ UNCHANGED <<gridVars, energyVars, notifyVars, orgVars, cpuVars, maintVars, censusVars, queueVars, taskVars>>

\* another task changes the grid
GridChanges ==
    /\ gen < MaxGen
    /\ gen' = gen + 1
    /\ UNCHANGED <<disk, save>>
    /\ UNCHANGED <<gridVars, energyVars, notifyVars, orgVars, cpuVars, maintVars, censusVars, queueVars, taskVars>>

----------------------------------------------------------------------------
(* food.Food while several tasks take energy from it *)

\* a task that is not in Food.AddEnergy
IdleFoodTask == [pc |-> "idle", f |-> Nil]

\* food.New(amt) when foodPool.Get() returns the pooled Food f: ResetEnergy(amt)
FoodNew(f, amt) ==
    /\ Running
    /\ f \in pool
    /\ pool' = pool \ {f}
    /\ foodV' = [foodV EXCEPT ![f] = amt]
    /\ last' = Call("FoodNew", "ok", f, 0, <<>>)
    /\ UNCHANGED <<width, height, data, locs, foodLoc, energyVars, notifyVars, orgVars,
                   cpuVars, maintVars, censusVars, queueVars, saveVars, ftask, otask,
                   subscriberVars>>

\* Food.AddEnergy up to the return of f.Store.AddEnergy: the level is stored by
\* the CompareAndSwap; the task goes on to invalidate when the level dropped to
\* zero
FoodStoreAddEnergy(t, f, amt) ==
    LET e == addEnergy(foodV[f], amt)
    IN  /\ Running
        /\ ftask[t].pc = "idle"
        /\ foodV' = [foodV EXCEPT ![f] = e.nv]
        /\ ftask' = [ftask EXCEPT ![t] = IF e.amt # 0 /\ e.nv = 0
                                          THEN [pc |-> "invalidate", f |-> f]
                                          ELSE IdleFoodTask]
        /\ last' = Call("FoodStoreAddEnergy", "ok", f, 0, <<>>)
        /\ UNCHANGED <<width, height, data, locs, foodLoc, energyVars, notifyVars, orgVars,
                       cpuVars, maintVars, censusVars, queueVars, saveVars, pool, otask,
                       subscriberVars>>

\* Food.AddEnergy from f.invalidate() on: f.mu and then the grid's lock are taken
\* only now; then foodPool.Put(f)
FoodInvalidate(t) ==
    /\ Running
    /\ ftask[t].pc = "invalidate"
    /\ \E r \in {foodInvalidate(G, ftask[t].f)} :
          /\ SetG(r.g)
          /\ last' = Call("FoodInvalidate", IF r.panic THEN "panic" ELSE "ok", ftask[t].f, 0, r.ups)
    /\ ftask' = [ftask EXCEPT ![t] = IdleFoodTask]
    /\ pool' = pool \cup {ftask[t].f}
    /\ UNCHANGED <<foodV, energyVars, notifyVars, orgVars,
                   cpuVars, maintVars, censusVars, queueVars, saveVars, otask, subscriberVars>>

----------------------------------------------------------------------------
(* Organisms whose tasks interleave: Eat and Die statement by statement *)

\* the task of an organism between two passes of the loop of Cpu.Run; n is the
\* occupant or the Food it holds a reference to, amt the amount it asks for or
\* has taken
IdleOrgTask == [pc |-> "idle", n |-> Nil, amt |-> 0]

\* what every step of an organism's task leaves alone
otherThanOrgTasks ==
    <<energyVars, notifyVars, olast, cpuVars, maintVars, censusVars, queueVars, saveVars,
      ftask, subscriberVars>>

\* Cpu.Step finds no Op for the byte it read and returns unableToReadErr; Run
\* goes on to o.Die()
StepBad(o) ==
    /\ Running
    /\ org[o].pc = "run"
    /\ otask[o].pc = "idle"
    /\ otask' = [otask EXCEPT ![o].pc = "die"]
    /\ last' = Call("Step", "ok", Nil, 0, <<>>)
    /\ UNCHANGED <<width, height, data, locs, foodLoc, foodV, org, pool, otherThanOrgTasks>>

\* Cpu.Step for opEat up to the type assertion in Organism.Eat(amt): the
\* Discharge of Step, the Discharge of Eat, and n := o.loc.Get(o.delta(1)) with
\* n.Value(); an error of Discharge makes Run go on to o.Die()
EatGet(o, amt) ==
    /\ Running
    /\ org[o].pc = "run"
    /\ otask[o].pc = "idle"
    /\ \E d1 \in {Discharge(W, o, 1 + Cost("Eat"))} :
       \E d2 \in {IF d1.err # Nil THEN d1 ELSE Discharge(d1.w, o, (amt + 99) \div 100)} :
       \E dl \in {orgDelta(org[o].Dir, 1)} :
       \E got \in {locatorGet(G, org[o].loc, dl.dx, dl.dy)} :
       \E n \in {Value(G, got.loc)} :
          /\ org' = d2.w.org
          /\ IF d2.err # Nil
             THEN /\ otask' = [otask EXCEPT ![o].pc = "die"]
                  /\ last' = Call("Eat", "ok", Nil, 0, <<>>)
             ELSE IF got.panic
             THEN /\ otask' = otask
                  /\ last' = Call("Eat", "panic", Nil, 0, <<>>)
             ELSE /\ otask' = [otask EXCEPT ![o] = IF got.loc # 0 /\ Energetic(n)
                                                   THEN [pc |-> "take", n |-> n, amt |-> amt]
                                                   ELSE IdleOrgTask]
                  /\ last' = Call("Eat", "ok", n, 0, <<>>)
    /\ UNCHANGED <<width, height, data, locs, foodLoc, foodV, pool, otherThanOrgTasks>>

\* energy.Transfer(o, n, amt) of Eat, its first statement: src.AddEnergy(-amt) on
\* the occupant the task holds; a Food that it empties is invalidated and handed
\* to foodPool.Put
EatTake(o) ==
    /\ Running
    /\ otask[o].pc = "take"
    /\ \E r \in {addEnergyTo(W, otask[o].n, -otask[o].amt)} :
          /\ SetG(r.w.g)
          /\ foodV' = r.w.fv
          /\ org' = r.w.org
          /\ pool' = IF otask[o].n \in AllFoods /\ r.amt # 0 /\ r.nv = 0
                     THEN pool \cup {otask[o].n} ELSE pool
          /\ otask' = [otask EXCEPT ![o] = [pc |-> "give", n |-> otask[o].n, amt |-> -r.amt]]
          /\ last' = Call("EatTake", IF r.panic THEN "panic" ELSE "ok", otask[o].n, 0, r.ups)
    /\ UNCHANGED otherThanOrgTasks

\* energy.Transfer(o, n, amt) of Eat, its second statement: dest.AddEnergy(-actual)
\* on the eater; Eat returns
EatGive(o) ==
    /\ Running
    /\ otask[o].pc = "give"
    /\ org' = [org EXCEPT ![o].V = addEnergy(org[o].V, otask[o].amt).nv]
    /\ otask' = [otask EXCEPT ![o] = IdleOrgTask]
    /\ last' = Call("EatGive", "ok", otask[o].n, 0, <<>>)
    /\ UNCHANGED <<width, height, data, locs, foodLoc, foodV, pool, otherThanOrgTasks>>

\* Organism.Die up to the call of Replace: o.Energy() is read and food.New makes
\* the Food f of that energy plus BodyEnergy; foodPool.Get() hands out a pooled
\* Food or a new one
DieNew(o, f) ==
    /\ Running
    /\ otask[o].pc = "die"
    /\ f \in pool \cup {FoodOf(o)}
    /\ pool' = pool \ {f}
    /\ foodV' = [foodV EXCEPT ![f] = int32(org[o].V + BodyEnergy)]
    /\ otask' = [otask EXCEPT ![o] = [pc |-> "replace", n |-> f, amt |-> 0]]
    /\ last' = Call("FoodNew", "ok", f, 0, <<>>)
    /\ UNCHANGED <<width, height, data, locs, foodLoc, org, otherThanOrgTasks>>

\* Organism.Die: o.loc.Replace(f); Run returns
DieReplace(o) ==
    /\ Running
    /\ otask[o].pc = "replace"
    /\ \E r \in {replaceLocked(G, org[o].loc, otask[o].n)} :
          /\ SetG(r.g)
          /\ last' = Call("LocReplace", IF r.panic THEN "panic" ELSE "ok", o, r.loc, r.ups)
    /\ org' = [org EXCEPT ![o].pc = "dead"]
    /\ otask' = [otask EXCEPT ![o] = IdleOrgTask]
    /\ UNCHANGED <<foodV, pool, otherThanOrgTasks>>

----------------------------------------------------------------------------
(* Specifications *)

\* grid2d.New(MaxDim, MaxDim, nil) with its notifier, a Food of FoodEnergy that is
\* not placed yet, Stores at their zero value and no organism yet
Init ==
    /\ width = MaxDim
    /\ height = MaxDim
    /\ data = [o \in 0..(MaxDim * MaxDim - 1) |-> 0]
    /\ locs = <<>>
    /\ foodLoc = [f \in AllFoods |-> 0]
    /\ foodV = [f \in AllFoods |-> IF f \in Foods THEN FoodEnergy ELSE 0]
    /\ last = Call("New", "ok", Nil, 0, <<>>)
    /\ V = [s \in Stores |-> 0]
    /\ task = [t \in Tasks |-> IdleTask]
    /\ ret = <<>>
    /\ gmu = None
    /\ nmu = None
    /\ subs = <<>>
    /\ mut = [m \in Mutators |-> IdleMut]
    /\ nMut = 0
    /\ nSent = 0
    /\ recv = [c \in Chans |-> <<>>]
    /\ subCount = [c \in Chans |-> 0]
    /\ subAt = [c \in Chans |-> 0]
    /\ org = [o \in Orgs |-> NoOrg]
    /\ olast = NoPass
    /\ cpu = NoCpu
    /\ clast = NoStep
    /\ mt = [pc |-> "none", count |-> 0, seed |-> 0]
    /\ spawning = 0
    /\ mch = <<>>
    /\ pop = 0
    /\ nPub = 0
    /\ mlast = NoBatch
    /\ cen = NewMemCensus
    /\ files = [n \in FileNames |-> NoFile]
    /\ numRecorded = 0
    /\ thr = 0
    /\ hist = NoHist
    /\ cenlast = NoCensusCall
    /\ que = NoQueue
    /\ qhist = NoQueueHist
    /\ qlast = NoQueueCall
    /\ disk = [n \in {"path", "temp"} |-> AbsentFile]
    /\ save = NoSave
    /\ gen = 0
    /\ ftask = [t \in Tasks |-> IdleFoodTask]
    /\ rdr = [c \in Chans |-> "receive"]
    /\ closed = {}
    /\ ndone = FALSE
    /\ pool = {}
    /\ otask = [o \in Orgs |-> IdleOrgTask]

Locators == 1..Len(locs)
Cells == (0..(width - 1)) \X (0..(height - 1))

\* the grid and its Locators, called by one task at a time
NextGrid ==
    \/ \E x \in GetCoords, y \in GetCoords : GridGet(x, y)
    \/ \E c \in Cells, n \in Occupants \cup {Nil}, fn \in PutWhens : GridPut(c[1], c[2], n, fn)
    \/ \E c \in Cells : GridRemove(c[1], c[2])
    \/ \E n \in Occupants, fn \in PutWhens : GridPutRandomly(n, fn)
    \/ \E w \in 1..MaxDim, h \in 1..MaxDim : GridResize(w, h)
    \/ \E l \in Locators, dx \in Deltas, dy \in Deltas : LocGet(l, dx, dy)
    \/ \E l \in Locators, dx \in Deltas, dy \in Deltas, n \in Occupants \cup {Nil}, fn \in PutWhens :
          LocPut(l, dx, dy, n, fn)
    \/ \E l \in Locators, dx \in Deltas, dy \in Deltas, fn \in PutWhens : LocMove(l, dx, dy, fn)
    \/ \E l \in Locators, n \in Occupants \cup {Nil} : LocReplace(l, n)
    \/ \E l \in Locators : LocRemove(l)
    \/ \E l \in Locators : LocRemoveWithPlaceholder(l, Null)

SpecGrid == Init /\ [][NextGrid]_vars

\* a Food in the grid that energy is taken from
NextFood ==
    \/ \E c \in Cells, n \in Occupants, fn \in PutWhens : GridPut(c[1], c[2], n, fn)
    \/ \E c \in Cells : GridRemove(c[1], c[2])
    \/ \E l \in Locators, dx \in Deltas, dy \in Deltas, fn \in PutWhens : LocMove(l, dx, dy, fn)
    \/ \E f \in Foods, amt \in FoodAmounts : FoodAddEnergy(f, amt)

SpecFood == Init /\ [][NextFood]_vars

\* tasks calling AddEnergy and Transfer on shared Stores
NextEnergy ==
    \/ \E t \in Tasks, s \in Stores, amt \in Amounts : CallAddEnergy(t, s, amt)
    \/ \E d \in Stores : \E s \in Stores \ {d} : \E amt \in Amounts : CallTransfer("t1", d, s, amt)
    \/ \E t \in Tasks : Load(t)
    \/ \E t \in Tasks : CompareAndSwap(t)

SpecEnergy == Init /\ [][NextEnergy]_vars

\* one task alone calling AddEnergy and Transfer
NextSeq ==
    \/ \E s \in Stores, amt \in Amounts : AddEnergy(s, amt)
    \/ \E d \in Stores : \E s \in Stores \ {d} : \E amt \in Amounts : Transfer(d, s, amt)

SpecSeq == Init /\ [][NextSeq]_vars

\* tasks mutating the grid while channels are subscribed and unsubscribed
NextNotify ==
    \/ \E m \in Mutators : PutBegin(m)
    \/ \E m \in Mutators : NotifyBegin(m)
    \/ \E m \in Mutators : NotifySend(m)
    \/ \E m \in Mutators : NotifyEnd(m)
    \/ \E m \in Mutators : PutEnd(m)
    \/ \E c \in Chans : Subscribe(c)
    \/ \E c \in Chans : Unsubscribe(c)

SpecNotify == Init /\ [][NextNotify]_vars

\* the Op a pass of Run reads with what the pass draws: the amount for Eat from
\* the registers, the direction of the child and the fraction for Divide
RunArgs ==
    {<<op, 0, 0, 0>> : op \in OpNames \ {"Eat", "Divide"}}
        \cup {<<"Eat", amt, 0, 0>> : amt \in EatAmounts}
        \cup {<<"Divide", 0, dir, k>> : dir \in DrawnDirs, k \in 0..FracDen}

\* organisms started in the grid and driven by their Cpu
NextOrgs ==
    \/ \E dir \in DrawnDirs : StartOrg(dir)
    \/ \E o \in Orgs, a \in RunArgs : Run(o, a[1], a[2], a[3], a[4])

SpecOrg == Init /\ [][NextOrgs]_vars

\* a Cpu stepped over the Code it was made with
NextCpu ==
    \/ \E code \in Codes : NewCpu(code)
    \/ CpuStep
SpecCpu == Init /\ [][NextCpu]_vars

\* Maintain, its seeding task and the tasks it starts, beside the tasks that
\* change the grid
NextMaintain ==
    \/ \E initial \in 0..MaxPop : MaintainStart(initial)
    \/ SeedSpawn
    \/ SpawnRun
    \/ \E ups \in Batches : Publish(ups)
    \/ MaintainRecv
SpecMaintain == Init /\ [][NextMaintain]_vars

\* the same, where Maintain goes on receiving and every task that is to call fn
\* gets to run
SpecMaintainLive ==
    SpecMaintain /\ WF_vars(MaintainRecv) /\ WF_vars(SeedSpawn) /\ WF_vars(SpawnRun)

\* a MemCensus called by one task
NextMemCensus ==
    \/ \E key \in CensusKeys : MemAdd(key)
    \/ \E key \in CensusKeys : MemRemove(key)

SpecMemCensus == Init /\ [][NextMemCensus]_vars

\* a DirCensus called by one task
NextDirCensus ==
    \/ \E threshold \in Thresholds, ls \in SUBSET FileNames : NewDirCensus(threshold, ls)
    \/ \E key \in CensusKeys : DirAdd(key)
    \/ \E key \in CensusKeys : DirRemove(key)

SpecDirCensus == Init /\ [][NextDirCensus]_vars

\* a queue with its producer and its consumer
NextQueue ==
    \/ \E size \in LimitSizes : NewQueue(Limit(size))
    \/ \E size \in RingSizes : NewQueue(Ring(size))
    \/ NewQueue(Trigger)
    \/ QueuePut
    \/ QueueDone
    \/ QueueGet

SpecQueue == Init /\ [][NextQueue]_vars

\* Loop saving the grid while other tasks change it
NextSave ==
    \/ LoopTick
    \/ \E ok \in BOOLEAN : SaveMkdirAll(ok)
    \/ \E ok \in BOOLEAN : SaveTempFile(ok)
    \/ \E ok \in BOOLEAN : SaveEncode(ok)
    \/ \E ok \in BOOLEAN : SaveRename(ok)
    \/ GridChanges

SpecSave == Init /\ [][NextSave]_vars

\* a Food that is made, put into a cell, read by Grid.Get and drained by tasks
\* whose calls of Food.AddEnergy interleave
NextFoodTasks ==
    \/ \E f \in Foods, amt \in 1..FoodEnergy : FoodNew(f, amt)
    \/ \E c \in Cells, f \in Foods :
          foodV[f] > 0 /\ foodLoc[f] = 0 /\ GridPut(c[1], c[2], f, "PutWhenNil")
    \/ \E c \in Cells : GridGet(c[1], c[2])
    \/ \E t \in Tasks, f \in Foods, amt \in FoodAmounts : FoodStoreAddEnergy(t, f, amt)
    \/ \E t \in Tasks : FoodInvalidate(t)

SpecFoodTasks == Init /\ [][NextFoodTasks]_vars

\* tasks that put into the grid while the tasks of the subscribers receive and
\* call Grid.Get
NextNotifyReaders ==
    \/ \E m \in Mutators : PutBegin(m)
    \/ \E m \in Mutators : NotifyBegin(m)
    \/ \E m \in Mutators : NotifySend(m)
    \/ \E m \in Mutators : NotifyEnd(m)
    \/ \E m \in Mutators : PutEnd(m)
    \/ \E c \in Chans : Subscribe(c)
    \/ \E c \in Chans : Unsubscribe(c)
    \/ \E c \in Chans : ReaderGetBegin(c)
    \/ \E c \in Chans : ReaderGetEnd(c)

SpecNotifyReaders == Init /\ [][NextNotifyReaders]_vars

\* a Cpu stepped over Code that holds labels and jumps to them
NextJump ==
    \/ \E code \in JumpCodes : NewCpu(code)
    \/ CpuStep
SpecJump == Init /\ [][NextJump]_vars

\* organisms started in a grid that also holds occupants that are neither Food
\* nor organisms
NextOrgsAmongOthers ==
    \/ \E c \in Cells : GridPut(c[1], c[2], "a", "PutWhenNil")
    \/ \E dir \in DrawnDirs : StartOrg(dir)
    \/ \E o \in Orgs, a \in RunArgs : Run(o, a[1], a[2], a[3], a[4])

SpecOrgAmongOthers == Init /\ [][NextOrgsAmongOthers]_vars

\* tasks that put into the grid before and after the exit is signalled to the
\* notifier
NextNotifyDone ==
    \/ \E m \in Mutators : PutBegin(m)
    \/ \E m \in Mutators : NotifyBegin(m)
    \/ \E m \in Mutators : NotifySend(m)
    \/ \E m \in Mutators : NotifySendClosed(m)
    \/ \E m \in Mutators : NotifyEnd(m)
    \/ \E m \in Mutators : PutEnd(m)
    \/ \E c \in Chans : Subscribe(c)
    \/ \E c \in Chans : Unsubscribe(c)
    \/ NotifierDone

SpecNotifyDone == Init /\ [][NextNotifyDone]_vars

\* a Food put into the grid and organisms started in it, whose tasks eat, move
\* and die while the tasks of the others do
NextOrgTasks ==
    \/ \E c \in Cells, f \in Foods :
          foodV[f] > 0 /\ foodLoc[f] = 0 /\ f \notin pool /\ GridPut(c[1], c[2], f, "PutWhenNil")
    \/ \E dir \in DrawnDirs : StartOrg(dir)
    \/ \E o \in Orgs : otask[o].pc = "idle" /\ Run(o, "Forward", 0, 0, 0)
    \/ \E o \in Orgs : StepBad(o)
    \/ \E o \in Orgs, amt \in 1..MaxEat : EatGet(o, amt)
    \/ \E o \in Orgs : EatTake(o)
    \/ \E o \in Orgs : EatGive(o)
    \/ \E o \in Orgs, f \in AllFoods : DieNew(o, f)
    \/ \E o \in Orgs : DieReplace(o)

SpecOrgTasks == Init /\ [][NextOrgTasks]_vars

----------------------------------------------------------------------------
(* Properties *)

\* C1: every Locator that is valid is the content of the grid cell at its own
\* recorded coordinates
LocationInvariance ==
    \A l \in Locators :
        ~locs[l].invalid =>
            LET got == getLocked(G, locs[l].x, locs[l].y)
            IN  ~got.panic /\ got.loc = l

\* C2: Grid.Put(x, y, o, PutAlways) and Locator.Replace(o) with o not nil return a
\* fresh Locator L: the cell holds L, L.Value() is o, L is valid, and every
\* Locator there was for that cell is invalid afterwards
PlacementIsFresh ==
    [][/\ \A x \in 0..(MaxDim - 1), y \in 0..(MaxDim - 1), n \in Occupants :
            (last'.op = "GridPut" /\ GridPut(x, y, n, "PutAlways") /\ last'.res = "ok") =>
                /\ last'.newloc # 0
                /\ data'[y * width + x] = last'.newloc
                /\ locs'[last'.newloc].v = n
                /\ ~locs'[last'.newloc].invalid
                /\ \A k \in Locators : (locs[k].x = x /\ locs[k].y = y) => locs'[k].invalid
       /\ \A l \in Locators, n \in Occupants :
            (last'.op = "LocReplace" /\ LocReplace(l, n) /\ last'.res = "ok") =>
                /\ last'.newloc # 0
                /\ data'[locs[l].y * width + locs[l].x] = last'.newloc
                /\ locs'[last'.newloc].v = n
                /\ ~locs'[last'.newloc].invalid
                /\ \A k \in Locators :
                      (locs[k].x = locs[l].x /\ locs[k].y = locs[l].y) => locs'[k].invalid
      ]_vars

\* C3: the level of every Store is at least 0 in every reachable state, whatever
\* the interleaving of the AddEnergy and Transfer calls
EnergyNonNegative == \A s \in Stores : V[s] >= 0

\* C3 witness: a Transfer asked a giver for more than it had and left it at 0,
\* while the other task is within a call of its own
EnergyClamped ==
    \E t \in Tasks, o \in Tasks :
        /\ t # o
        /\ task[o].pc # "idle"
        /\ task[t].op = "Transfer"
        /\ task[t].phase = 2
        /\ task[t].k < task[t].req
        /\ V[task[t].src] = 0

\* C4: an AddEnergy(-k) call with k >= 0 whose compare-and-swap replaces the level
\* v returns (-min(k, v), max(v - k, 0)), and the level changes by the amount it returns
AddEnergyAtomic ==
    [][\A t \in Tasks :
          LET c == task[t]
              v == V[c.store]
              k == -c.k
          IN  (CompareAndSwap(t) /\ c.op = "AddEnergy" /\ c.k <= 0 /\ v = c.orig) =>
                  /\ c.amt = -(IF k < v THEN k ELSE v)
                  /\ c.nv = (IF v - k > 0 THEN v - k ELSE 0)
                  /\ V'[c.store] - v = c.amt
      ]_vars

\* C5: Transfer moves min(|amt|, level of the giver) from the giver to the
\* receiver, and the two levels add up to what they added up to before the call
TransferConserves ==
    [][\A dest \in Stores : \A src \in Stores \ {dest} : \A amt \in Amounts :
          LET giver == IF amt >= 0 THEN src ELSE dest
              moved == IF amt < 0 THEN (IF -amt < V[giver] THEN -amt ELSE V[giver])
                       ELSE (IF amt < V[giver] THEN amt ELSE V[giver])
          IN  Transfer(dest, src, amt) =>
                  /\ ret'[2] = moved
                  /\ V'[giver] = V[giver] - moved
                  /\ V'[dest] + V'[src] = V[dest] + V[src]
      ]_vars

GridPutEmitsAddOrReplace ==
    [][\A x \in 0..(MaxDim - 1), y \in 0..(MaxDim - 1), n \in Occupants, fn \in PutWhens :
          (last'.op = "GridPut" /\ GridPut(x, y, n, fn) /\ last'.newloc # 0) =>
              last'.ups = IF last'.orig = Nil THEN <<RecordAdd(x, y, n)>>
                          ELSE <<RecordReplace(x, y, last'.orig, n)>>
      ]_vars

\* C8: when AddEnergy brings a Food placed in the grid to level 0, its cell becomes
\* empty, its locator invalid, and exactly one Remove of that Food is sent
FoodAtZeroIsRemoved ==
    [][\A f \in Foods, amt \in FoodAmounts :
          LET l == foodLoc[f]
          IN  (/\ FoodAddEnergy(f, amt)
               /\ foodV[f] > 0 /\ foodV'[f] = 0
               /\ l # 0
               /\ ~locs[l].invalid
               /\ getLocked(G, locs[l].x, locs[l].y).loc = l) =>
                  /\ data'[locs[l].y * width + locs[l].x] = 0
                  /\ locs'[l].invalid
                  /\ last'.ups = <<RecordRemove(locs[l].x, locs[l].y, f)>>
      ]_vars

GridGetWraps ==
    [][\A x \in GetCoords, y \in GetCoords :
          (last'.op = "GridGet" /\ GridGet(x, y)) =>
              /\ last'.res = "ok"
              /\ last'.newloc = data[(y % height) * width + (x % width)]
      ]_vars

\* C11: Get(dx, dy) on a Locator L that is the content of cell (x, y) returns the
\* content of cell ((x + dx) mod w, (y + dy) mod h), and when that is a Locator M,
\* M.Get(-dx, -dy) returns L
RelativeGetIsToroidal ==
    [][\A l \in Locators, dx \in Deltas, dy \in Deltas :
          (/\ last'.op = "LocGet"
           /\ LocGet(l, dx, dy)
           /\ ~locs[l].invalid
           /\ getLocked(G, locs[l].x, locs[l].y) = [panic |-> FALSE, loc |-> l]) =>
              LET m == data[((locs[l].y + dy) % height) * width + ((locs[l].x + dx) % width)]
              IN  /\ last'.res = "ok"
                  /\ last'.newloc = m
                  /\ m # 0 =>
                        /\ ~checkValid(G, m)
                        /\ ~checkLocationInvariant(G, m)
                        /\ getLocked(G, delta(G, m, -dx, -dy).x, delta(G, m, -dx, -dy).y).loc = l
      ]_vars

\* C11 witness: Get returned a Locator while two Locators were in a grid one cell wide
GetReturnedNeighbour ==
    /\ last.op = "LocGet"
    /\ last.res = "ok"
    /\ last.newloc # 0
    /\ width = 1
    /\ \E l \in Locators : l # last.newloc /\ ~locs[l].invalid /\ ~checkLocationInvariant(G, l)

\* C12: a Move(dx, dy, fn) of a Locator in its cell (x, y) reports success or
\* failure. After a success the Locator is valid at ((x + dx) mod w, (y + dy) mod h),
\* that cell holds it, the source cell is empty unless it is the destination, and
\* the Locator that was at the destination is invalid; a failure changes nothing
MoveSucceedsOrChangesNothing ==
    [][\A l \in Locators, dx \in Deltas, dy \in Deltas, fn \in PutWhens :
          (/\ last'.op = "LocMove"
           /\ LocMove(l, dx, dy, fn)
           /\ ~locs[l].invalid
           /\ getLocked(G, locs[l].x, locs[l].y) = [panic |-> FALSE, loc |-> l]) =>
              LET tx == (locs[l].x + dx) % width
                  ty == (locs[l].y + dy) % height
                  src == locs[l].y * width + locs[l].x
                  dst == ty * width + tx
                  prev == data[dst]
              IN  \/ /\ last'.res = "ok"
                     /\ ~locs'[l].invalid
                     /\ locs'[l].x = tx /\ locs'[l].y = ty
                     /\ data'[dst] = l
                     /\ src # dst => data'[src] = 0
                     /\ (prev # 0 /\ prev # l) => locs'[prev].invalid
                  \/ /\ last'.res = "refused"
                     /\ last'.ups = <<>>
                     /\ UNCHANGED <<width, height, data, locs, foodLoc>>
      ]_vars

\* C13: a Grid.Put or Locator.Put whose predicate returns false returns the existing
\* value with a nil Locator, leaves the cell and every Locator as they were, and
\* sends no Update
RefusedPutChangesNothing ==
    [][/\ \A x \in 0..(MaxDim - 1), y \in 0..(MaxDim - 1), n \in Occupants \cup {Nil}, fn \in PutWhens :
            (/\ last'.op = "GridPut"
             /\ GridPut(x, y, n, fn)
             /\ ~getLocked(G, x, y).panic
             /\ ~shouldPut(fn, Value(G, getLocked(G, x, y).loc), n)) =>
                /\ last'.res = "ok"
                /\ last'.orig = Value(G, getLocked(G, x, y).loc)
                /\ last'.newloc = 0
                /\ last'.ups = <<>>
                /\ UNCHANGED <<width, height, data, locs, foodLoc>>
       /\ \A l \in Locators, dx \in Deltas, dy \in Deltas, n \in Occupants \cup {Nil}, fn \in PutWhens :
            (/\ last'.op = "LocPut"
             /\ LocPut(l, dx, dy, n, fn)
             /\ ~checkValid(G, l)
             /\ ~checkLocationInvariant(G, l)
             /\ ~shouldPut(fn, Value(G, getLocked(G, delta(G, l, dx, dy).x, delta(G, l, dx, dy).y).loc), n)) =>
                /\ last'.res = "ok"
                /\ last'.orig = Value(G, getLocked(G, delta(G, l, dx, dy).x, delta(G, l, dx, dy).y).loc)
                /\ last'.newloc = 0
                /\ last'.ups = <<>>
                /\ UNCHANGED <<width, height, data, locs, foodLoc>>
      ]_vars

\* C14: Resize(w, h, removedFn) calls removedFn once and sends one Remove for each
\* occupant outside the new bounds and takes it out of the grid; every other
\* occupant stays at its coordinates, its Locator valid and in its cell
ResizeDropsAndKeeps ==
    [][\A w \in 1..MaxDim, h \in 1..MaxDim :
          (last'.op = "GridResize" /\ GridResize(w, h)) =>
              LET olds == {l \in Locators : \E o \in DOMAIN data : data[o] = l}
                  out == {l \in olds : locs[l].x >= w \/ locs[l].y >= h}
              IN  /\ Len(last'.ups) = Cardinality(out)
                  /\ Len(last'.cb) = Cardinality(out)
                  /\ \A l \in out :
                        /\ \E i \in 1..Len(last'.ups) :
                              last'.ups[i] = RecordRemove(locs[l].x, locs[l].y, locs[l].v)
                        /\ \E i \in 1..Len(last'.cb) :
                              last'.cb[i] = <<locs[l].x, locs[l].y, locs[l].v>>
                        /\ \A o \in DOMAIN data' : data'[o] # l
                  /\ \A l \in olds \ out :
                        /\ locs'[l] = locs[l]
                        /\ ~locs'[l].invalid
                        /\ data'[locs[l].y * w + locs[l].x] = l
                  /\ width' = w /\ height' = h
      ]_vars

\* C14 witness: a Resize dropped one occupant and kept another
ResizeDroppedOneKeptOne ==
    /\ last.op = "GridResize"
    /\ Len(last.ups) = 1
    /\ Len(last.cb) = 1
    /\ \E l \in Locators : ~locs[l].invalid /\ ~checkLocationInvariant(G, l)

\* C15: a pass of Run whose Step returns no error leaves the organism running; the
\* first pass whose Step returns an error calls Die, which puts a Food of the
\* organism's energy at that moment plus BodyEnergy into the organism's cell,
\* invalidates the organism's locator and sends one Replace; after it no pass of
\* Run acts for the organism and the organism never changes
RunDiesOnce ==
    [][/\ \A o \in Orgs, a \in RunArgs :
             (olast'.o = o /\ olast'.op = a[1] /\ Run(o, a[1], a[2], a[3], a[4])) =>
                 LET s == Step(W, o, a[1], a[2], IF Unmade # {} THEN NextOrg ELSE Nil, a[3], a[4]).r
                     l == org[o].loc
                     x == s.w.g.locs[l].x
                     y == s.w.g.locs[l].y
                     f == FoodOf(o)
                 IN  /\ last'.res = "ok"
                     /\ org[o].pc = "run"
                     /\ IF s.err = Nil
                        THEN org'[o].pc = "run" /\ ~olast'.died /\ olast'.ups = s.ups
                        ELSE /\ org'[o].pc = "dead"
                             /\ olast'.died
                             /\ foodV'[f] = s.w.org[o].V + BodyEnergy
                             /\ data'[y * width' + x] = foodLoc'[f]
                             /\ locs'[foodLoc'[f]] = newLocator(x, y, f)
                             /\ locs'[l].invalid
                             /\ olast'.ups = s.ups \o <<RecordReplace(x, y, o, f)>>
       /\ \A o \in Orgs :
             org[o].pc = "dead" =>
                 (org'[o] = org[o] /\ ~\E a \in RunArgs : Run(o, a[1], a[2], a[3], a[4]))
     ]_vars

\* C15: an organism that ran out of energy was replaced by a Food of BodyEnergy
StarvedOrganismBecameFood ==
    \E o \in Orgs :
        /\ olast.o = o /\ olast.err = "ErrNoEnergy" /\ olast.died
        /\ org[o].pc = "dead"
        /\ locs[org[o].loc].invalid
        /\ foodLoc[FoodOf(o)] # 0
        /\ foodV[FoodOf(o)] = BodyEnergy
        /\ Len(olast.ups) = 1 /\ IsReplace(olast.ups[1][1])

\* C16: when Divide is called with the fraction k / FracDen by a parent of energy
\* E >= BodyEnergy whose cell ahead is empty, the child is in that cell with
\* energy floor(E * k / FracDen), the parent keeps E - floor(E * k / FracDen) -
\* BodyEnergy, and exactly one Update, an Add, is sent
DivideSharesEnergy ==
    [][\A o \in Orgs, dir \in DrawnDirs, k \in 0..FracDen :
          (olast'.o = o /\ olast'.op = "Divide" /\ Run(o, "Divide", 0, dir, k)) =>
              LET d1 == Discharge(W, o, 1 + Cost("Divide"))
                  d2 == Discharge(d1.w, o, CodeLen)
                  E == d2.w.org[o].V
                  dl == orgDelta(org[o].Dir, 1)
                  d == delta(G, org[o].loc, dl.dx, dl.dy)
                  n == NextOrg
              IN  (/\ d1.err = Nil /\ d2.err = Nil
                   /\ E >= BodyEnergy
                   /\ getLocked(G, d.x, d.y).loc = 0) =>
                      /\ olast'.child = n
                      /\ org'[n].loc # 0
                      /\ data'[d.y * width + d.x] = org'[n].loc
                      /\ org'[n].V = (E * k) \div FracDen
                      /\ org'[o].V = E - ((E * k) \div FracDen) - BodyEnergy
                      /\ Len(olast'.ups) = 1
                      /\ olast'.ups[1] = RecordAdd(d.x, d.y, n)
     ]_vars

\* C17: when Eat(amt) is called by an organism that can pay its cost and an
\* Energetic occupant of energy e is in the cell ahead, Eat returns min(amt, e),
\* which is not negative; the occupant loses that much, the eater gains it less
\* the cost of Eat, and a Food emptied by it is no longer in the grid
EatReturnsAmountEaten ==
    [][\A o \in Orgs, amt \in EatAmounts :
          (olast'.o = o /\ olast'.op = "Eat" /\ Run(o, "Eat", amt, 0, 0)) =>
              LET d1 == Discharge(W, o, 1 + Cost("Eat"))
                  E == d1.w.org[o].V
                  cost == (amt + 99) \div 100
                  dl == orgDelta(org[o].Dir, 1)
                  d == delta(G, org[o].loc, dl.dx, dl.dy)
                  ahead == getLocked(G, d.x, d.y).loc
                  v == Value(G, ahead)
                  e == Energy(W, v)
                  m == IF amt < e THEN amt ELSE e
              IN  (d1.err = Nil /\ E >= cost /\ ahead # 0 /\ Energetic(v)) =>
                      /\ olast'.ret = m
                      /\ olast'.ret >= 0
                      /\ (IF v \in Orgs THEN org'[v].V ELSE foodV'[v]) = e - m
                      /\ org'[o].V = E - cost + m
                      /\ (v \in AllFoods /\ m > 0 /\ m = e) => data'[d.y * width + d.x] = 0
     ]_vars

\* C18: when Forward is called by an organism that can pay for it, the organism
\* moves into the cell ahead if that cell is empty or holds a Food, whose locator
\* is then invalid, and the move is refused only if the cell holds an organism
ForwardEntersEmptyOrFood ==
    [][\A o \in Orgs :
          (olast'.o = o /\ olast'.op = "Forward" /\ Run(o, "Forward", 0, 0, 0)) =>
              LET d1 == Discharge(W, o, 1 + Cost("Forward"))
                  l == org[o].loc
                  dl == orgDelta(org[o].Dir, 1)
                  d == delta(G, l, dl.dx, dl.dy)
                  ahead == getLocked(G, d.x, d.y).loc
                  v == Value(G, ahead)
              IN  (d1.err = Nil /\ d1.w.org[o].V >= 1) =>
                      IF ahead = 0 \/ v \in AllFoods
                      THEN /\ olast'.operr = Nil
                           /\ data'[d.y * width + d.x] = l
                           /\ locs'[l].x = d.x /\ locs'[l].y = d.y
                           /\ data'[locs[l].y * width + locs[l].x] = 0
                           /\ ahead # 0 => locs'[ahead].invalid
                      ELSE /\ v \in Orgs
                           /\ olast'.operr = "ErrNotEmpty"
     ]_vars

\* C19: when Forward is called by an organism that can pay for it and the cell
\* ahead holds another organism, Forward returns ErrNotEmpty; no cell, no locator
\* and neither organism's direction changes, no Update is sent, the call costs
\* the mover the one unit that Forward always discharges, on top of what Step
\* discharged before it, and Step returns no error, so that Run goes on
RefusedForwardChangesNothing ==
    [][\A o \in Orgs :
          (olast'.o = o /\ olast'.op = "Forward" /\ Run(o, "Forward", 0, 0, 0)) =>
              LET d1 == Discharge(W, o, 1 + Cost("Forward"))
                  E == d1.w.org[o].V
                  dl == orgDelta(org[o].Dir, 1)
                  d == delta(G, org[o].loc, dl.dx, dl.dy)
                  ahead == getLocked(G, d.x, d.y).loc
                  v == Value(G, ahead)
              IN  (d1.err = Nil /\ E >= 1 /\ ahead # 0 /\ v \in Orgs \ {o}) =>
                      /\ olast'.operr = "ErrNotEmpty"
                      /\ data' = data /\ locs' = locs /\ foodLoc' = foodLoc
                      /\ org'[v] = org[v]
                      /\ org'[o].Dir = org[o].Dir /\ org'[o].loc = org[o].loc
                      /\ olast'.ups = <<>>
                      /\ org'[o].V = E - 1
                      /\ olast'.err = Nil /\ ~olast'.died /\ org'[o].pc = "run"
     ]_vars

\* C19: a Forward was refused by an organism in the cell ahead, and the mover
\* still runs
ForwardRefusedByOrganism ==
    \E o \in Orgs :
        LET dl == orgDelta(org[o].Dir, 1)
            d == delta(G, org[o].loc, dl.dx, dl.dy)
        IN  /\ olast.o = o /\ olast.op = "Forward" /\ olast.operr = "ErrNotEmpty"
            /\ org[o].pc = "run"
            /\ Value(G, getLocked(G, d.x, d.y).loc) \in Orgs \ {o}

\* C20: when Sense(nil) is called, it returns the sum over the distances
\* i = 1..SenseDistance of the energy of the Energetic occupant i cells ahead
\* divided by i^SenseFalloffExp, here in units of 1 / SenseScale(SenseDistance),
\* so that one occupant of energy e in the cell ahead alone yields e; and the
\* call changes no cell, no locator and no energy level
SenseSumsEnergyAhead ==
    [][\A o \in Orgs :
          (olast'.o = o /\ olast'.op = "Sense" /\ Run(o, "Sense", 0, 0, 0)) =>
              LET d1 == Discharge(W, o, 1 + Cost("Sense"))
                  c == d1.w
                  term(i) ==
                      LET dl == orgDelta(org[o].Dir, i)
                          d == delta(G, org[o].loc, dl.dx, dl.dy)
                          v == Value(G, getLocked(G, d.x, d.y).loc)
                      IN  IF Energetic(v)
                          THEN (Energy(c, v) * SenseScale(SenseDistance)) \div (i ^ SenseFalloffExp)
                          ELSE 0
                  RECURSIVE sum(_)
                  sum(i) == IF i = 0 THEN 0 ELSE term(i) + sum(i - 1)
              IN  d1.err = Nil =>
                      /\ olast'.ret = sum(SenseDistance)
                      /\ data' = data /\ locs' = locs /\ foodV' = foodV /\ foodLoc' = foodLoc
                      /\ org' = c.org
     ]_vars

\* C21: for every Op, a Step of an organism whose energy is exactly what the Step
\* discharges, 1 + the Op's cost, calls the Op's method, which returns no error,
\* so that Run goes on; and the next Step, begun with no energy, returns
\* ErrNoEnergy and Run lets the organism die
ExactEnergyRunsOpThenStarves ==
    [][\A o \in Orgs, a \in RunArgs :
          (olast'.o = o /\ olast'.op = a[1] /\ a[1] # "Bad"
           /\ Run(o, a[1], a[2], a[3], a[4])) =>
              /\ org[o].V = 1 + Cost(a[1]) =>
                     /\ olast'.called
                     /\ olast'.err = Nil /\ ~olast'.died /\ org'[o].pc = "run"
                     /\ org'[o].V = 0
              /\ org[o].V = 0 =>
                     /\ ~olast'.called
                     /\ olast'.err = "ErrNoEnergy" /\ olast'.died /\ org'[o].pc = "dead"
     ]_vars

\* C22: whatever byte 0..255 is at a non-negative instruction pointer, Step does
\* not abort: for a byte of the table it goes on with the Op of that byte, and
\* for a byte that has no Op it returns unableToReadErr and discharges nothing
StepNeverAbortsOnByte ==
    [][CpuStep =>
          LET b == cpu.Code[goRem(cpu.Ip, Len(cpu.Code)) + 1]
          IN  (cpu.Ip >= 0 /\ b \in 0..255) =>
                  /\ ~clast'.panic
                  /\ IF b < LenOps
                     THEN clast'.op = b /\ clast'.err # "unableToReadErr"
                     ELSE /\ clast'.op = NilOp /\ clast'.err = "unableToReadErr"
                          /\ cpu'.V = cpu.V
     ]_vars

InFlight ==
    mt.seed + spawning + Cardinality({i \in 1..Len(mch) : mch[i].spawned})

RECURSIVE sumOf(_, _)
sumOf(f, S) ==
    IF S = {} THEN 0
    ELSE LET k == CHOOSE x \in S : TRUE IN f[k] + sumOf(f, S \ {k})

\* how many of key the calls so far have left in the world
present(key) == hist.adds[key] - hist.removes[key]

\* C25: after any sequence of MemCensus Add and Remove calls in which no key
\* is removed more often than it was added, Count() is the Adds less the
\* Removes, CountAllTime() the Adds, Distinct() the number of keys with a
\* positive count, DistinctAllTime() the number of distinct keys ever added,
\* and Get(k) succeeds exactly for the keys with a positive count and
\* reports that count.
MemCensusCountsMatchCalls ==
    (\A k \in CensusKeys : hist.removes[k] <= hist.adds[k]) =>
        /\ Count(cen) = sumOf(hist.adds, CensusKeys) - sumOf(hist.removes, CensusKeys)
        /\ CountAllTime(cen) = sumOf(hist.adds, CensusKeys)
        /\ Distinct(cen) = Cardinality({k \in CensusKeys : present(k) > 0})
        /\ DistinctAllTime(cen) = Cardinality({k \in CensusKeys : hist.adds[k] > 0})
        /\ \A k \in CensusKeys :
            /\ memGet(cen, k).ok <=> present(k) > 0
            /\ memGet(cen, k).ok => memGet(cen, k).p.Count = present(k)

\* C26: DirCensus writes the file named hex(key.Hash()) exactly at an Add for
\* which the threshold holds and no file of the key exists, and the file then
\* holds the Population as of that Add; no other Add and no Remove that
\* leaves a positive count writes a file; the Remove that brings the count of
\* a key with a file to zero writes that file once, with Count 0 and Last set.
DirCensusWritesAtFirstAddAndLastRemove ==
    [][hist'.calls = hist.calls + 1 =>
        LET k == cenlast'.key
            n == filename(k)
            left == hist'.adds[k] - hist'.removes[k]
            wrote == hist'.creates[n] - hist.creates[n]
        IN  /\ \A m \in FileNames \ {n} :
                files'[m] = files[m] /\ hist'.creates[m] = hist.creates[m]
            /\ cenlast'.op = "Add" =>
                IF (thr = NilThreshold \/ left > thr) /\ files[n] = NoFile
                THEN /\ wrote = 1
                     /\ files'[n] = cenlast'.ret
                     /\ files'[n].Key = k
                     /\ files'[n].Count = left
                ELSE wrote = 0 /\ files'[n] = files[n]
            /\ (cenlast'.op = "Remove" /\ ~cenlast'.panic) =>
                IF left = 0 /\ files[n] # NoFile
                THEN /\ wrote = 1
                     /\ files'[n].Key = k
                     /\ files'[n].Count = 0
                     /\ files'[n].Last = cenlast'.when
                     /\ files'[n].Last # NoWhen
                ELSE wrote = 0 /\ files'[n] = files[n]
    ]_vars

\* C26 witness: under a threshold of Count > 2 a key was added three times,
\* which wrote its file, and the third Remove has written it again
FinalRemoveRewroteRecord ==
    /\ thr = 2
    /\ cenlast.op = "Remove"
    /\ cenlast.ret.Count = 0
    /\ hist.adds[cenlast.key] = 3
    /\ hist.creates[filename(cenlast.key)] = 2
    /\ files[filename(cenlast.key)].Count = 0
    /\ files[filename(cenlast.key)].Last = cenlast.when

\* C27: each Get of a Limit(n) queue returns, in the order of the Puts, the
\* first min(k, n) of the k values Put since the previous Get, the others
\* being discarded; for an Unlimited queue the Gets so far, concatenated, are
\* the Puts so far, whatever the interleaving of producer and consumer.
LimitGetReturnsFirstPuts ==
    [][(que.kind = "limit" /\ qlast'.op = "Get") =>
        LET k == Len(qhist.since)
            m == IF que.limit < 0 \/ k < que.limit THEN k ELSE que.limit
        IN  /\ qlast'.values = SubSeq(qhist.since, 1, m)
            /\ que'.values = <<>>
            /\ que.limit < 0 => qhist'.gets = qhist.puts
    ]_vars

\* C27 witness: three values were Put into a Limit(2) queue between two Gets
\* and the Get has returned the first two
LimitGetDroppedThird ==
    /\ que.kind = "limit"
    /\ que.limit = 2
    /\ qlast.op = "Get"
    /\ qlast.values = <<2, 3>>
    /\ qhist.puts = <<1, 2, 3, 4>>
    /\ qhist.gets = <<1, 2, 3>>

\* C28: from the first Get on a new Ring(n) queue on, a Get does not return
\* while nothing was Put since the previous Get (unless Done was called), and
\* otherwise returns, in the order of the Puts, the last min(k, n) of the k
\* values Put since the previous Get.
RingGetReturnsLastPuts ==
    [][(que.kind = "ring" /\ qlast'.op = "Get") =>
        LET k == Len(qhist.since)
            n == Len(que.cells)
            m == IF k < n THEN k ELSE n
        IN  IF k = 0 THEN que.done /\ qlast'.values = <<>>
            ELSE qlast'.values = SubSeq(qhist.since, k - m + 1, k)
    ]_vars

\* how many of the values Put since the previous Get a queue of this kind retains
kept(q, since) ==
    LET k == Len(since)
        n == IF q.kind = "ring" THEN Len(q.cells) ELSE q.limit
    IN  CASE q.kind = "trigger" -> IF k > 0 THEN 1 ELSE 0
          [] q.kind = "limit" /\ n < 0 -> k
          [] OTHER -> IF k < n THEN k ELSE n

\* C29: for a Limit, a Ring and a Trigger queue alike, Get is blocked exactly
\* while nothing is retained and Done has not been called; a Get after Done
\* returns ok = true when something is still retained and (nil, false) when
\* nothing is, so that every later Get returns (nil, false); a Put panics
\* exactly when Done has been called.
QueueGetWaitsForPutOrDone ==
    /\ [](que.kind # "none" => (getBlocks(que) <=> (kept(que, qhist.since) = 0 /\ ~que.done)))
    /\ [][que.kind # "none" =>
            /\ qlast'.op = "Put" => (qlast'.panic <=> que.done)
            /\ (qlast'.op = "Get" /\ que.done) =>
                /\ qlast'.ok <=> kept(que, qhist.since) > 0
                /\ ~qlast'.ok => qlast'.values = <<>>
                /\ kept(que', qhist'.since) = 0
       ]_vars

\* C30: at every point during and after a Save, whatever fails, the file at
\* path is absent, or the complete snapshot that was there when Save was
\* called, or the complete snapshot Save has taken, and never a partly written
\* one; when Save has returned the error of the encoding, the temporary file
\* is gone and the file at path is the one that was there when Save was called.
SaveLeavesWholeSnapshot ==
    /\ ~disk["path"].exists \/ Complete(disk["path"])
    /\ save.pc # "idle" =>
        \/ disk["path"] = save.prev
        \/ save.snap # -1 /\ disk["path"] = File(save.snap, Chunks)
    /\ (save.pc = "returned" /\ save.err = "Encode") =>
        ~disk["temp"].exists /\ disk["path"] = save.prev

\* C30 witness: a second Save, begun over the snapshot of the first, has
\* written part of a newer snapshot to its temporary file and then returned
\* the error of the encoding
SecondSaveFailedEncoding ==
    /\ save.pc = "returned"
    /\ save.err = "Encode"
    /\ save.n = 2
    /\ save.snap > save.prev.snap
    /\ Complete(save.prev)
    /\ disk["path"] = save.prev


\* the Locator in the cell at offset o holds a Food whose level is zero
depletedAt(o) ==
    /\ data[o] # 0
    /\ locs[data[o]].v \in AllFoods
    /\ foodV[locs[data[o]].v] = 0

\* C31: in no state that another task can observe does a cell hold a Food whose
\* energy is 0: the AddEnergy that depletes a Food and the removal of the Food
\* from its cell are one step for every other grid or energy operation
NoCellHoldsDepletedFood == \A o \in DOMAIN data : ~depletedAt(o)


\* C32: all the Updates that one critical section of the grid produces reach a
\* subscriber as a single batch, one send of one list: a Resize that drops k
\* occupants sends one batch that holds k Removes, and no call sends more than
\* one batch
CriticalSectionSendsOneBatch ==
    [][/\ Len(last'.ups) <= 1
       /\ \A w \in 1..MaxDim, h \in 1..MaxDim :
             (last'.op = "GridResize" /\ GridResize(w, h)) =>
                 LET olds == {l \in Locators : \E o \in DOMAIN data : data[o] = l}
                     out == {l \in olds : locs[l].x >= w \/ locs[l].y >= h}
                 IN  IF out = {} THEN last'.ups = <<>>
                     ELSE /\ Len(last'.ups) = 1
                          /\ Len(last'.ups[1]) = Cardinality(out)
                          /\ \A i \in 1..Len(last'.ups[1]) : IsRemove(last'.ups[1][i])
      ]_vars


\* mutator m is at its send to channel c while it holds the grid's lock, and the
\* task that receives from c waits for that lock in Grid.Get
sendBlockedByReader(m, c) ==
    /\ mut[m].pc = "sending"
    /\ mut[m].i <= Len(subs)
    /\ subs[mut[m].i] = c
    /\ gmu = m
    /\ rdr[c] = "get"

\* C33: no mutator holds the lock of the cell array while it delivers an Update
\* to a subscriber, so that a subscriber that calls Grid.Get while a mutator is
\* delivering to it never ends up waiting for the mutator that waits for it
NoDeliveryUnderGridLock ==
    /\ \A m \in Mutators : mut[m].pc = "sending" => gmu # m
    /\ \A m \in Mutators, c \in Chans : ~sendBlockedByReader(m, c)


\* the positions of code that hold label n
labelsOf(code, n) == {p \in 0..(Len(code) - 1) : code[p + 1] = n}

\* how far position p is from ip for a scan that goes forward and wraps around
forwardDist(code, ip, p) == (p - ip) % Len(code)

\* how far position p is from ip for a scan that goes backward and wraps around
backwardDist(code, ip, p) == (ip - p) % Len(code)

\* p is a nearest position of label n from ip in a scan by dist; the position ip
\* itself may count as the first or as the last one the scan meets
nearest(code, n, ip, p, dist(_, _, _)) ==
    /\ p \in labelsOf(code, n)
    /\ \/ \A q \in labelsOf(code, n) : dist(code, ip, p) <= dist(code, ip, q)
       \/ \A q \in labelsOf(code, n) :
             (IF dist(code, ip, p) = 0 THEN Len(code) ELSE dist(code, ip, p))
                 <= (IF dist(code, ip, q) = 0 THEN Len(code) ELSE dist(code, ip, q))

\* what a jump to label n may leave in Ip: a nearest position of the label, and 0
\* when the code holds no such label
jumpsTo(code, n, ip, ip2, dist(_, _, _)) ==
    IF labelsOf(code, n) = {} THEN ip2 = 0 ELSE nearest(code, n, ip, ip2, dist)

\* C34: JumpN sets Ip to the position of the nearest byte equal to label N found
\* scanning forward from the current Ip with wrap-around, JumpRN to the nearest
\* such byte found scanning backward, and either sets Ip to 0 when the code holds
\* no such label; the current Ip is the one Step stored after it read the jump
JumpsReachNearestLabel ==
    [][(CpuStep /\ clast'.err = Nil /\ ~clast'.panic) =>
          LET ip == goRem(cpu.Ip, Len(cpu.Code)) + 1
          IN  /\ clast'.op \in 5..8 =>
                    jumpsTo(cpu.Code, clast'.op - 4, ip, cpu'.Ip, forwardDist)
              /\ clast'.op \in 9..12 =>
                    jumpsTo(cpu.Code, clast'.op - 8, ip, cpu'.Ip, backwardDist)
      ]_vars


\* C35: an organism that starts with energy InitialEnergy and gains none ends the
\* loop of Run after at most InitialEnergy calls of Step, whatever its code is,
\* and the loop ends by calling Die and returning
RunEndsWithinEnergySteps ==
    /\ clast.n <= InitialEnergy
    /\ cpu.pc \in {"none", "run", "dead"}


\* the cells a grid of the largest extents has
AllCells == (0..(MaxDim - 1)) \X (0..(MaxDim - 1))

\* the occupancy of the grid g: the value in each cell, Nil for an empty cell and
\* for a cell outside the extents
occupancy(g) ==
    [c \in AllCells |->
        IF c[1] < g.w /\ c[2] < g.h /\ g.data[c[2] * g.w + c[1]] # 0
        THEN g.locs[g.data[c[2] * g.w + c[1]]].v
        ELSE Nil]

\* what a subscriber makes of one Update: Add and Replace set New at its cell,
\* Remove clears the cell of Old, Move clears the cell of Old and sets New
applyUpdate(occ, u) ==
    IF IsAdd(u) \/ IsReplace(u) THEN [occ EXCEPT ![<<u.New.X, u.New.Y>>] = u.New.V]
    ELSE IF IsRemove(u) THEN [occ EXCEPT ![<<u.Old.X, u.Old.Y>>] = Nil]
    ELSE [[occ EXCEPT ![<<u.Old.X, u.Old.Y>>] = Nil] EXCEPT ![<<u.New.X, u.New.Y>>] = u.New.V]

\* the Updates of a sequence of batches, in the order they were sent
RECURSIVE flatten(_)
flatten(batches) == IF batches = <<>> THEN <<>> ELSE Head(batches) \o flatten(Tail(batches))

RECURSIVE replay(_, _)
replay(occ, ups) == IF ups = <<>> THEN occ ELSE replay(applyUpdate(occ, Head(ups)), Tail(ups))

\* every occupant that entered or left a cell between occ and occ2 is named by
\* one of the Updates: as New when it entered, as Old when it left
namedBy(occ, occ2, ups) ==
    \A c \in AllCells :
        occ[c] # occ2[c] =>
            /\ occ2[c] # Nil => \E i \in 1..Len(ups) : ups[i].New = Point(c[1], c[2], occ2[c])
            /\ occ[c] # Nil => \E i \in 1..Len(ups) : ups[i].Old = Point(c[1], c[2], occ[c])

\* C36: a subscriber that applies the Updates it receives to the occupancy it
\* started from holds the occupancy of the grid after every call of Grid.Put,
\* Remove, PutRandomly, Resize, Locator.Put, Move, Replace, Remove and
\* RemoveWithPlaceholder that returns, and no occupant enters or leaves a cell
\* without an Update that names it
ReplayOfUpdatesIsOccupancy ==
    [][(last' # last /\ last'.res # "panic") =>
          /\ replay(occupancy(G), flatten(last'.ups)) = occupancy(G)'
          /\ namedBy(occupancy(G), occupancy(G)', flatten(last'.ups))
      ]_vars


\* C39: a Divide that returns ErrNotEmpty because the cell ahead refuses the child
\* leaves the parent's energy as it was when Divide was called and places nothing
\* in the grid: BodyEnergy is spent only when a child is placed
RefusedDivideCostsNothing ==
    [][\A o \in Orgs, dir \in DrawnDirs, k \in 0..FracDen :
          (/\ olast'.o = o /\ olast'.op = "Divide" /\ olast'.called
           /\ olast'.operr = "ErrNotEmpty"
           /\ Run(o, "Divide", 0, dir, k)) =>
              /\ org'[o].V = olast'.e0
              /\ data' = data
              /\ locs' = locs
              /\ olast'.ups = <<>>
      ]_vars


\* C40: after the exit was signalled and notifier.Done has closed the channels of
\* the subscribers, the mutations of the tasks that still run complete: no
\* mutation aborts because of a closed channel
MutationsCompleteAfterDone ==
    ndone => /\ \A m \in Mutators : mut[m].pc # "aborted"
             /\ last.op = "add" => last.res # "panic"


\* the organisms that live: started and not yet replaced by Die
living == {o \in Orgs : org[o].pc = "run"}

\* the Foods that are in a cell of the grid
foodsInGrid == {f \in AllFoods : \E c \in DOMAIN data : data[c] # 0 /\ locs[data[c]].v = f}

\* the energy a Transfer has taken from its source and not yet given to the eater
inTransfer(o) == IF otask[o].pc = "give" THEN otask[o].amt ELSE 0

\* the energy of the world: that of the living organisms and of the Foods in the
\* grid, BodyEnergy for each living organism, and what is in transfer
worldEnergy ==
    sumOf([o \in Orgs |-> org[o].V + BodyEnergy], living)
        + sumOf(foodV, foodsInGrid)
        + sumOf([o \in Orgs |-> inTransfer(o)], Orgs)

\* a step of the task of an organism: of its Step, Forward, Eat or Die
organismActs ==
    \/ \E o \in Orgs : otask[o].pc = "idle" /\ Run(o, "Forward", 0, 0, 0)
    \/ \E o \in Orgs : StepBad(o)
    \/ \E o \in Orgs, amt \in 1..MaxEat : EatGet(o, amt)
    \/ \E o \in Orgs : EatTake(o)
    \/ \E o \in Orgs : EatGive(o)
    \/ \E o \in Orgs, f \in AllFoods : DieNew(o, f)
    \/ \E o \in Orgs : DieReplace(o)

\* C37: under any interleaving of the tasks of the organisms, no step of an
\* organism's Step, Forward, Eat or Die increases the energy of the world, the
\* sum of the organisms' energy, the Foods' energy and BodyEnergy for each living
\* organism; no energy is made when an organism is eaten from while or after
\* it dies
OrganismsMakeNoEnergy ==
    [][organismActs => worldEnergy' <= worldEnergy]_vars


\* the occupant in the cell directly ahead of organism o, Nil for an empty cell
aheadOf(o) ==
    LET dl == orgDelta(org[o].Dir, 1)
        d == delta(G, org[o].loc, dl.dx, dl.dy)
    IN  Value(G, getLocked(G, d.x, d.y).loc)

\* C38: an Eat takes energy only from the occupant that is in the cell directly
\* ahead of the eater at the moment of the transfer, and a Food that was
\* emptied, handed to the pool and handed out again by food.New is never drained
\* through a reference obtained before it was emptied
EatTakesFromCellAhead ==
    [][\A o \in Orgs : EatTake(o) => aheadOf(o) = otask[o].n]_vars

====
